---- MODULE Spec2Model ----
(***************************************************************************)
(* SOJ (Secure Online Judge): the judgement pipeline (Evaluator.RunJudge), *)
(* the submission coordinator (handleSubmit), the store (DatabaseService)  *)
(* with its startup reaper, and the best-score aggregator.                 *)
(*                                                                         *)
(* Scores and weights are float64 in the program; the model draws them     *)
(* from small integer ranges, on which float64 arithmetic is exact.        *)
(* A submission id is the submit time in nanoseconds; the model numbers    *)
(* the accepted submissions 1, 2, ... in the order of acceptance.          *)
(***************************************************************************)
EXTENDS Integers, Sequences, FiniteSets, TLC

\* ---------------------------------------------------------------- bounds
MaxSubs == 1        \* submissions a run of Spec accepts; SpecRace: one more

Ids == 1..(MaxSubs + 1)
\* scores a result.json or a rescoring may carry: negative, zero, two positive
Scores == {0 - 1, 0, 1, 2}
UserIds == {"alice", "bob"}
\* the user of the ssh sessions whose submit commands the pipeline runs
Submitters == {"alice"}

\* ------------------------------------------------------------- problems
\* Three problem files as yaml.Unmarshal yields them; "sum" omits weight and
\* has a workflow without steps, "noop" has no workflow at all. "hello"
\* asks for the file main.py and for the directory src; a path is written as
\* the list of its elements.
ProblemFiles ==
    {[id |-> "hello", weight |-> 2,
      submits |-> <<[path |-> <<"main.py">>, is_dir |-> FALSE],
                    [path |-> <<"src">>, is_dir |-> TRUE]>>,
      workflow |-> <<[steps |-> <<"build", "run">>], [steps |-> <<"score">>]>>],
     [id |-> "sum", weight |-> 0, submits |-> <<>>,
      workflow |-> <<[steps |-> <<>>]>>],
     [id |-> "noop", weight |-> 1, submits |-> <<>>, workflow |-> <<>>]}

LoadProblem(f) == IF f.weight = 0 THEN [f EXCEPT !.weight = 1] ELSE f

LoadProblemDir == [pid \in {f.id : f \in ProblemFiles} |->
                     LoadProblem(CHOOSE f \in ProblemFiles : f.id = pid)]

problems == LoadProblemDir

\* ------------------------------------------------------------ map helpers
EmptyMap == [k \in {} |-> 0]
MapPut(m, k, v) == [x \in DOMAIN m \cup {k} |-> IF x = k THEN v ELSE m[x]]
MapDel(m, k) == [x \in DOMAIN m \ {k} |-> m[x]]
\* Go's m[k] on a float64 map: the zero value when the key is missing
MapGet(m, k) == IF k \in DOMAIN m THEN m[k] ELSE 0

RECURSIVE SumValues(_)
SumValues(m) ==
    IF DOMAIN m = {} THEN 0
    ELSE LET k == CHOOSE x \in DOMAIN m : TRUE
         IN  m[k] + SumValues(MapDel(m, k))

RECURSIVE Reverse(_)
Reverse(q) == IF q = <<>> THEN <<>> ELSE Append(Reverse(Tail(q)), Head(q))

RECURSIVE Orders(_)
Orders(S) == IF S = {} THEN {<<>>}
             ELSE UNION {{<<x>> \o q : q \in Orders(S \ {x})} : x \in S}

\* ------------------------------------------------------------- the records
VARIABLES
    now,        \* the wall clock: what time.Now().UnixNano() returns
    dbUp        \* whether the store takes a write (a statement that fails
                \* returns an error and leaves the table as it is)

ZeroJudgeResult == [success |-> FALSE, score |-> 0]

\* what <workdir>/work/result.json may hold when the workflows are done:
\* no file; bytes that are not JSON; JSON whose score (or success) has the
\* wrong type; a well-formed result
ResultFiles ==
    {[kind |-> "missing", success |-> FALSE, score |-> 0],
     [kind |-> "syntax", success |-> FALSE, score |-> 0],
     [kind |-> "badscore", success |-> TRUE, score |-> 0],
     [kind |-> "badsuccess", success |-> FALSE, score |-> 2]}
    \cup {[kind |-> "ok", success |-> b, score |-> sc] : b \in BOOLEAN, sc \in Scores}

\* json.Unmarshal(_result, &ctx.JudgeResult) on the file f
Unmarshal(jr, f) ==
    IF f.kind \in {"missing", "syntax"} THEN jr
    ELSE [success |-> f.success, score |-> f.score]

\* what ExecContainer may return: exit code and error
ExecOutcomes == {[ec |-> 0, err |-> FALSE], [ec |-> 1, err |-> FALSE],
                 [ec |-> 0, err |-> TRUE]}

NoCtx == [id |-> 0, user |-> "", problem |-> "", submit_time |-> 0,
          last_update |-> 0, status |-> "", msg |-> "", submits_hashes |-> <<>>,
          workflow_results |-> <<>>, judge_result |-> ZeroJudgeResult]

NewCtx(id, u, pid) == [NoCtx EXCEPT !.id = id, !.user = u, !.problem = pid,
                                    !.submit_time = id, !.status = "init"]

SetStatus(c, st) == [c EXCEPT !.status = st, !.last_update = now]
SetMsg(c, m) == [c EXCEPT !.msg = m, !.last_update = now]

\* (mutant) the total is left as it was
CalculateTotalScore_stale(u) == u

\* (mutant) the sum is added to the total the record already has
CalculateTotalScore_accum(u) ==
    [u EXCEPT !.total_score = @ + SumValues(u.best_scores)]

CalculateTotalScore(u) == [u EXCEPT !.total_score = SumValues(u.best_scores)]

NewUser(uid) == [id |-> uid, best_scores |-> EmptyMap, best_submits |-> EmptyMap,
                 best_submit_date |-> EmptyMap, total_score |-> 0]

\* ---------------------------------------------------------------- statuses
Terminal == {"completed", "failed", "dead"}

WorkflowStatus(i) == "run_workflow-" \o ToString(i)
\* (mutant) the two indices in the wrong order
StepStatus_swapped(i, s) == "run_workflow-" \o ToString(s) \o "_" \o ToString(i)
StepStatus(i, s) == "run_workflow-" \o ToString(i) \o "_" \o ToString(s)
\* strconv.Quote on a path of plain characters
Quote(str) == "\"" \o str \o "\""

\* ------------------------------------------------------------------- paths
\* A path is the list of its elements and whether it starts with "/"; no
\* element is "." or "..", so path.Join and path.Clean only put the
\* elements together.
RECURSIVE Str(_)
Str(segs) == IF segs = <<>> THEN ""
             ELSE IF Len(segs) = 1 THEN segs[1]
             ELSE segs[1] \o "/" \o Str(Tail(segs))

\* path.Join(p, elements...), and p + "/" + rel read again as a path
Join(p, segs) == [abs |-> p.abs, segs |-> p.segs \o segs]

\* filepath.IsAbs
IsAbs(p) == p.abs

IsPrefix(a, b) == Len(a) <= Len(b) /\ SubSeq(b, 1, Len(a)) = a

RECURSIVE CommonLen(_, _)
CommonLen(a, b) ==
    IF a = <<>> \/ b = <<>> \/ Head(a) # Head(b) THEN 0
    ELSE 1 + CommonLen(Tail(a), Tail(b))

\* filepath.Rel(base, targ) for two paths that are both absolute or both
\* relative: up from base to the common ancestor, then down to targ
Rel(base, targ) ==
    LET n == CommonLen(base.segs, targ.segs)
    IN  [i \in 1..(Len(base.segs) - n) |-> ".."]
          \o SubSeq(targ.segs, n + 1, Len(targ.segs))

\* cfg.SubmitsDir as the configuration file may give it: an absolute path, or
\* a path relative to the working directory of the server
SubmitsDirs == {[abs |-> TRUE, segs |-> <<"submits">>],
                [abs |-> FALSE, segs |-> <<"submits">>]}

\* cfg.SubmitsDir of the deployment Spec looks at
SubmitsDir == [abs |-> TRUE, segs |-> <<"submits">>]

\* ctx.SubmitDir: path.Join(cfg.SubmitsDir, s.User(), pid)
SubmitDir(dir, u, pid) == Join(dir, <<u, pid>>)

\* the regular files a user has uploaded below the SubmitDir of a problem
\* before the submit command, relative to it and in lexical order
Uploaded == <<<<"main.py">>, <<"src", "a.c">>, <<"src", "lib", "b.c">>>>

\* the same files as the server finds them on the host
HostFiles(submit_dir) == [i \in 1..Len(Uploaded) |-> Join(submit_dir, Uploaded[i])]

\* os.Open(src) finds a file
Exists(submit_dir, src) ==
    \E i \in 1..Len(Uploaded) : HostFiles(submit_dir)[i] = src

\* filepath.WalkDir(root, fn): the paths handed to fn for which
\* !info.IsDir(), each filepath.Join(root, names...), in lexical order
WalkDir(root, files) ==
    SelectSeq(files, LAMBDA f : /\ f.abs = root.abs
                               /\ IsPrefix(root.segs, f.segs)
                               /\ f.segs # root.segs)

\* lines 215-217: what the WalkDir callback makes of the walked path
Walked(dir_path, path) ==
    IF IsAbs(path) THEN Rel(dir_path, path) ELSE path.segs

\* lines 199-229: the submit_path arguments of the submitFile calls one entry
\* of problem.Submits leads to, when none of them fails
SubmitCalls(submit_dir, entry) ==
    IF ~entry.is_dir THEN <<entry.path>>
    ELSE LET dir_path == Join(submit_dir, entry.path)
             found == WalkDir(dir_path, HostFiles(submit_dir))
         IN  [i \in 1..Len(found) |-> entry.path \o Walked(dir_path, found[i])]

\* (mutant) every entry is reported as a file
CopyFailMsg_file(entry) == "failed to copy submit file " \o Quote(Str(entry.path))

\* lines 203 and 223: the message of a staging failure
CopyFailMsg(entry) ==
    IF entry.is_dir
    THEN "failed to copy submit directory " \o Quote(Str(entry.path))
    ELSE "failed to copy submit file " \o Quote(Str(entry.path))

\* (mutant) the hash entry is appended before the copy is known to succeed
Hashed_early(hashes, submit_path, ok) == Append(hashes, submit_path)

\* submitFile lines 421-433: ctx.SubmitsHashes after copyFile returned
Hashed(hashes, submit_path, ok) ==
    IF ok THEN Append(hashes, submit_path) ELSE hashes
\* (mutant) the message carries the indices as the status string does
StepFailMsg_zerobased(i, s) ==
    "failed to run judge " \o ToString(i) \o " step " \o ToString(s)

StepFailMsg(i, s) ==
    "failed to run judge " \o ToString(i + 1) \o " step " \o ToString(s + 1)

\* ------------------------------------------------------------------- store
\* db.Save: update the row with this primary key, insert it when absent
Save(tbl, row) == MapPut(tbl, row.id, row)

\* submit.LastUpdate = time.Now().UnixNano() of CreateSubmit and UpdateSubmit
Stamped(c) == [c EXCEPT !.last_update = now]

\* a write to the store: the table it leaves when the statement gives the
\* table `to`; a statement that fails leaves the table as it was
Written(tbl, to) == IF dbUp THEN to ELSE tbl

\* json.Marshal of a string: a byte that is not UTF-8 is replaced by the
\* replacement character U+FFFD; every other character comes back from
\* json.Unmarshal as it went in
Marshal(text) ==
    [i \in 1..Len(text) |-> IF text[i] = "0xFF" THEN "U+FFFD" ELSE text[i]]

\* WorkflowResults.Value: the JSON document of the column, as the list of
\* the objects it holds
WorkflowResultsValue(wr) == [i \in 1..Len(wr) |-> [wr[i] EXCEPT !.logs = Marshal(@)]]

\* WorkflowResults.Scan: json.Unmarshal of the column
WorkflowResultsScan(col) == col

\* the row gorm writes for the SubmitCtx c: the ten columns; the fields
\* tagged gorm:"-" (SubmitDir, Workdir, RealWorkdir, Running, Userface) have
\* none
Columns(c) == [c EXCEPT !.workflow_results = WorkflowResultsValue(@)]

UpdateSubmit(tbl, c) == Written(tbl, Save(tbl, Columns(Stamped(c))))

\* GetSubmitByID: First(&submit) with `id = ?`
GetSubmitByID(tbl, id) ==
    IF id \in DOMAIN tbl
    THEN [found |-> TRUE,
          submit |-> [tbl[id] EXCEPT !.workflow_results = WorkflowResultsScan(@)]]
    ELSE [found |-> FALSE, submit |-> NoCtx]

UpdateUser(tbl, u) == Written(tbl, Save(tbl, CalculateTotalScore(u)))

\* (mutant) the WHERE clause without its third condition
ReapStatus_nofailed(st) ==
    IF st # "completed" /\ st # "dead" THEN "dead" ELSE st

\* the UPDATE of NewDatabaseService on one row
ReapStatus(st) ==
    IF st # "completed" /\ st # "dead" /\ st # "failed" THEN "dead" ELSE st

Reap(tbl) == [id \in DOMAIN tbl |-> [tbl[id] EXCEPT !.status = ReapStatus(@)]]

\* ---------------------------------------------------------------- aggregator
\* (mutant) the latest successful submission is recorded, whatever its score
ApplySubmit_latest(u, c, prob) ==
    IF c.status = "completed" /\ c.judge_result.success
    THEN [u EXCEPT !.best_scores = MapPut(@, c.problem, c.judge_result.score * prob.weight),
                   !.best_submits = MapPut(@, c.problem, c.id),
                   !.best_submit_date = MapPut(@, c.problem, c.submit_time)]
    ELSE u

\* (mutant) JudgeResult.Success is not looked at
ApplySubmit_nosuccess(u, c, prob) ==
    IF c.status = "completed"
    THEN LET newScore == c.judge_result.score * prob.weight
         IN  IF MapGet(u.best_scores, c.problem) < newScore
             THEN [u EXCEPT !.best_scores = MapPut(@, c.problem, newScore),
                            !.best_submits = MapPut(@, c.problem, c.id),
                            !.best_submit_date = MapPut(@, c.problem, c.submit_time)]
             ELSE u
    ELSE u

\* the body of UpdateUserSubmitResult between GetUserByID and UpdateUser
ApplySubmit(u, c, prob) ==
    IF c.status = "completed" /\ c.judge_result.success
    THEN LET newScore == c.judge_result.score * prob.weight
         IN  IF MapGet(u.best_scores, c.problem) < newScore
             THEN [u EXCEPT !.best_scores = MapPut(@, c.problem, newScore),
                            !.best_submits = MapPut(@, c.problem, c.id),
                            !.best_submit_date = MapPut(@, c.problem, c.submit_time)]
             ELSE u
    ELSE u

\* (mutant) an equal score replaces the recorded one
ScanSubmit_orequal(u, s, probs) ==
    IF s.status = "completed" /\ s.judge_result.success /\ s.problem \in DOMAIN probs
    THEN LET newScore == s.judge_result.score * probs[s.problem].weight
         IN  IF MapGet(u.best_scores, s.problem) <= newScore
             THEN [u EXCEPT !.best_scores = MapPut(@, s.problem, newScore),
                            !.best_submits = MapPut(@, s.problem, s.id),
                            !.best_submit_date = MapPut(@, s.problem, s.submit_time)]
             ELSE u
    ELSE u

\* one iteration of the loop of DoFullUserScan over a loaded submission
ScanSubmit(u, s, probs) ==
    IF s.status = "completed" /\ s.judge_result.success /\ s.problem \in DOMAIN probs
    THEN LET newScore == s.judge_result.score * probs[s.problem].weight
         IN  IF MapGet(u.best_scores, s.problem) < newScore
             THEN [u EXCEPT !.best_scores = MapPut(@, s.problem, newScore),
                            !.best_submits = MapPut(@, s.problem, s.id),
                            !.best_submit_date = MapPut(@, s.problem, s.submit_time)]
             ELSE u
    ELSE u

\* the loop of DoFullUserScan: userMap after the rows in `rows` (a sequence of
\* loaded submissions); fatal when a row's user is missing (log.Fatal)
RECURSIVE ScanLoop(_, _, _)
ScanLoop(userMap, rows, probs) ==
    IF rows = <<>> THEN [fatal |-> FALSE, userMap |-> userMap]
    ELSE LET s == Head(rows)
         IN  IF s.user \notin DOMAIN userMap
             THEN [fatal |-> TRUE, userMap |-> userMap]
             ELSE ScanLoop(MapPut(userMap, s.user, ScanSubmit(userMap[s.user], s, probs)),
                           Tail(rows), probs)

\* the rows of a table in the order `order` of their ids
RowsIn(tbl, order) == [i \in 1..Len(order) |-> tbl[order[i]]]

\* DoFullUserScan on the users table utbl and the loaded submissions `rows`:
\* whether it dies in log.Fatal, and the users table it leaves
ScanResult(utbl, rows, probs) ==
    LET res == ScanLoop(utbl, rows, probs)
    IN  [fatal |-> res.fatal,
         users |-> IF res.fatal THEN utbl
                   ELSE [u \in DOMAIN res.userMap |->
                           CalculateTotalScore(res.userMap[u])]]

\* ------------------------------------------------------------------- state
VARIABLES
    phase,      \* "boot": process started; "scan": reaper done; "serving"; "fatal"
    quota,      \* number of submit commands this run still takes beyond
                \* nextId - 1 (a bound of the model)
    nextId,     \* the id the next accepted submission gets
    submits,    \* store: table of submissions, id -> row
    users,      \* store: table of users, id -> row
    ctx,        \* the in-memory SubmitCtx of each accepted submission
    rj,         \* RunJudge's frame per submission: position and locals
    hs,         \* handleSubmit's frame per submission after the go statement
    running,    \* ctx.Running: number of times it has been closed
    created,    \* containers RunImage created, per submission (workflow idx+1)
    cleaned,    \* CleanContainer calls, per submission, in call order
    written,    \* history: statuses RunJudge handed to UpdateSubmit, per submission
    execLog,    \* history: ExecContainer calls, per submission
    paused,     \* SSHHandler.paused
    resp        \* the last answer to a client: of an SSH session handled by
                \* SSHHandler, or of the HTTP read API

\* what the pipeline's own steps leave alone
env == <<now, paused, dbUp, resp>>

vars == <<phase, quota, nextId, submits, users, ctx, rj, hs, running,
          created, cleaned, written, execLog, env>>

\* k, j: the entry of problem.Submits and the submitFile call of that entry
\* that come next; copies: the copyFile calls made so far
NoFrame == [pc |-> "none", idx |-> 0, sidx |-> 0, k |-> 0, j |-> 1,
            steps |-> <<>>, defers |-> <<>>, file |-> "none",
            submit_dir |-> [abs |-> FALSE, segs |-> <<>>], copies |-> <<>>]
\* no request has been answered yet
NoResp == [route |-> "", to |-> "", status |-> 0, data |-> <<>>]

NoWaiter == [pc |-> "none", user |-> NewUser(""), err |-> FALSE, channel |-> "open"]

InitWith(q) ==
    /\ phase = "boot"
    /\ quota = q
    /\ nextId = 1
    /\ submits = EmptyMap
    /\ users = EmptyMap
    /\ ctx = [s \in Ids |-> NoCtx]
    /\ rj = [s \in Ids |-> NoFrame]
    /\ hs = [s \in Ids |-> NoWaiter]
    /\ running = [s \in Ids |-> 0]
    /\ created = [s \in Ids |-> <<>>]
    /\ cleaned = [s \in Ids |-> <<>>]
    /\ written = [s \in Ids |-> <<>>]
    /\ execLog = [s \in Ids |-> <<>>]
    /\ now = 1
    /\ paused = FALSE
    /\ dbUp = TRUE
    /\ resp = NoResp

Init == InitWith(MaxSubs)

\* ------------------------------------------------------------ process start
\* NewDatabaseService: the reaper's UPDATE
Reaper ==
    /\ phase = "boot"
    /\ submits' = Written(submits, Reap(submits))
    /\ phase' = "scan"
    /\ UNCHANGED <<quota, nextId, users, ctx, rj, hs, running, created, cleaned,
                   written, execLog>>
    /\ UNCHANGED env

\* main: DoFullUserScan(problems); Find returns the rows in an order the
\* query does not fix
DoFullUserScan ==
    /\ phase = "scan"
    /\ \E order \in Orders(DOMAIN submits) :
         LET res == ScanResult(users, RowsIn(submits, order), problems)
         IN  /\ phase' = IF res.fatal THEN "fatal" ELSE "serving"
             /\ users' = Written(users, res.users)
    /\ UNCHANGED <<quota, nextId, submits, ctx, rj, hs, running, created, cleaned,
                   written, execLog>>
    /\ UNCHANGED env

\* the process dies (kill, power loss, log.Fatal) and is started again: every
\* goroutine and every in-memory SubmitCtx is gone (and with them the
\* histories kept about them), the store and the containers stay
Crash ==
    /\ phase' = "boot"
    /\ rj' = [s \in Ids |-> IF rj[s].pc = "none" THEN rj[s]
                            ELSE [NoFrame EXCEPT !.pc = "gone"]]
    /\ hs' = [s \in Ids |-> IF hs[s].pc = "none" THEN hs[s]
                            ELSE [NoWaiter EXCEPT !.pc = "gone"]]
    /\ ctx' = [s \in Ids |-> NoCtx]
    /\ running' = [s \in Ids |-> 0]
    /\ written' = [s \in Ids |-> <<>>]
    /\ execLog' = [s \in Ids |-> <<>>]
    /\ paused' = FALSE
    /\ UNCHANGED <<quota, nextId, submits, users, created, cleaned, now, dbUp, resp>>

\* ------------------------------------------------------------- handleSubmit
\* the problem ids a submit command may name: the loaded ones and one that
\* is not loaded
Requests == DOMAIN problems \cup {"ghost"}

\* (mutant) an id that is not loaded is answered with a loaded problem
GetProblem_any(pid) == [ok |-> TRUE]

\* ProblemManager.GetProblem: p, ok := pm.problems[id]
GetProblem(pid) == [ok |-> pid \in DOMAIN problems]

\* handleSubmit up to `go evaluator.RunJudge(&ctx, &pb)`, dir being
\* cfg.SubmitsDir; with a problem id that is not loaded it prints
\* "problem ... not found" and returns
HandleSubmitAt(t, dir, u, pid) ==
    /\ phase = "serving"
    /\ nextId <= quota
    /\ IF GetProblem(pid).ok
       THEN /\ ctx' = [ctx EXCEPT ![nextId] = NewCtx(t, u, pid)]
            /\ rj' = [rj EXCEPT ![nextId] =
                        [NoFrame EXCEPT !.pc = "start",
                                        !.submit_dir = SubmitDir(dir, u, pid)]]
            /\ hs' = [hs EXCEPT ![nextId] = [NoWaiter EXCEPT !.pc = "wait"]]
            /\ nextId' = nextId + 1
            /\ quota' = quota
       ELSE /\ quota' = quota - 1
            /\ UNCHANGED <<ctx, rj, hs, nextId>>
    /\ UNCHANGED <<phase, submits, users, running, created, cleaned,
                   written, execLog>>
    /\ UNCHANGED env

\* handleSubmit where the clock has moved on since the accept before: the
\* k-th accept reads k at `subtime := time.Now()`
HandleSubmitIn(dir, u, pid) == HandleSubmitAt(nextId, dir, u, pid)

HandleSubmit(u, pid) == HandleSubmitIn(SubmitsDir, u, pid)

\* ----------------------------------------------------------------- RunJudge
\* (mutant) a write to the user's session comes back only while the channel
\* is open
Write_blocking(channel) == channel = "open"

\* Userface.Write: whether the call comes back to RunJudge. It hands p to the
\* buffer and to the session, drops what the session's Write returned and
\* returns (len(p), nil); a closed channel makes the session's Write fail at
\* once, and nobody looks at that
Write(channel) == channel \in {"open", "closed"}

\* RunJudge is at work on s and its prints to ctx.Userface come back
Active(s) ==
    /\ phase = "serving"
    /\ rj[s].pc \notin {"none", "gone", "returned"}
    /\ Write(hs[s].channel)

\* (mutant) a write that fails takes back what was set in memory
InMemory_rollback(old, new) == IF dbUp THEN new ELSE old

\* the SubmitCtx in memory after `e.dbService.UpdateSubmit(ctx)`, old being
\* the one before the setters ran: RunJudge drops the error UpdateSubmit
\* returns
InMemory(old, new) == new

\* e.dbService.UpdateSubmit(ctx) with the SubmitCtx c
Persist(s, c) ==
    /\ ctx' = [ctx EXCEPT ![s] = InMemory(@, Stamped(c))]
    /\ submits' = UpdateSubmit(submits, c)
    /\ written' = [written EXCEPT ![s] = Append(@, c.status)]

\* ctx.SetStatus("failed").SetMsg(m); UpdateSubmit; return
FailWith(s, m) ==
    /\ Persist(s, SetMsg(SetStatus(ctx[s], "failed"), m))
    /\ rj' = [rj EXCEPT ![s].pc = "defer"]

\* lines 150-151
PrepDirs(s) ==
    /\ Active(s) /\ rj[s].pc = "start"
    /\ Persist(s, SetStatus(ctx[s], "prep_dirs"))
    /\ rj' = [rj EXCEPT ![s].pc = "mkdir"]
    /\ UNCHANGED <<phase, quota, nextId, users, hs, running, created, cleaned, execLog>>
    /\ UNCHANGED env

\* lines 159-197: the three Mkdir and three Chown, then prep_files
MakeDirs(s) ==
    /\ Active(s) /\ rj[s].pc = "mkdir"
    /\ \E ok \in BOOLEAN :
         IF ok THEN /\ Persist(s, SetStatus(ctx[s], "prep_files"))
                    /\ rj' = [rj EXCEPT ![s].pc = "stage", ![s].k = 1]
               ELSE FailWith(s, "failed to create submit workdir")
    /\ UNCHANGED <<phase, quota, nextId, users, hs, running, created, cleaned, execLog>>
    /\ UNCHANGED env

\* lines 199-229 with submitFile and copyFile: the next submitFile call of
\* the staging loop; io is whether the copy goes through once the source is
\* open
StageEntry(s) ==
    /\ Active(s) /\ rj[s].pc = "stage"
    /\ rj[s].k <= Len(problems[ctx[s].problem].submits)
    /\ LET entry == problems[ctx[s].problem].submits[rj[s].k]
           calls == SubmitCalls(rj[s].submit_dir, entry)
       IN  IF rj[s].j > Len(calls)
           THEN /\ rj' = [rj EXCEPT ![s].k = @ + 1, ![s].j = 1]
                /\ UNCHANGED <<ctx, submits, written>>
           ELSE LET submit_path == calls[rj[s].j]
                    src == Join(rj[s].submit_dir, submit_path)
                IN  \E io \in BOOLEAN :
                      LET ok == io /\ Exists(rj[s].submit_dir, src)
                          copy == [src |-> src, dst |-> submit_path, ok |-> ok]
                          c == [ctx[s] EXCEPT !.submits_hashes = Hashed(@, submit_path, ok)]
                      IN  IF ok
                          THEN /\ ctx' = [ctx EXCEPT ![s] = c]
                               /\ rj' = [rj EXCEPT
                                           ![s].copies = Append(@, copy),
                                           ![s].k = IF rj[s].j = Len(calls) THEN @ + 1 ELSE @,
                                           ![s].j = IF rj[s].j = Len(calls) THEN 1 ELSE @ + 1]
                               /\ UNCHANGED <<submits, written>>
                          ELSE /\ Persist(s, SetMsg(SetStatus(c, "failed"), CopyFailMsg(entry)))
                               /\ rj' = [rj EXCEPT ![s].pc = "defer",
                                                   ![s].copies = Append(@, copy)]
    /\ UNCHANGED <<phase, quota, nextId, users, hs, running, created, cleaned, execLog>>
    /\ UNCHANGED env

\* lines 235-236
StagingDone(s) ==
    /\ Active(s) /\ rj[s].pc = "stage"
    /\ rj[s].k > Len(problems[ctx[s].problem].submits)
    /\ Persist(s, SetStatus(ctx[s], "run_workflow"))
    /\ rj' = [rj EXCEPT ![s].pc = "wf", ![s].idx = 0]
    /\ UNCHANGED <<phase, quota, nextId, users, hs, running, created, cleaned, execLog>>
    /\ UNCHANGED env

\* lines 238-275: the head of one iteration of the workflow loop
WorkflowBegin(s) ==
    /\ Active(s) /\ rj[s].pc = "wf"
    /\ rj[s].idx < Len(problems[ctx[s].problem].workflow)
    /\ Persist(s, SetStatus(ctx[s], WorkflowStatus(rj[s].idx)))
    /\ rj' = [rj EXCEPT ![s].pc = "image"]
    /\ UNCHANGED <<phase, quota, nextId, users, hs, running, created, cleaned, execLog>>
    /\ UNCHANGED env

\* (mutant) one cleanup slot, overwritten by each new container
RegisterCleanup_last(defers, cid) == <<cid>>

\* line 300: defer e.docker.CleanContainer(cid)
RegisterCleanup(defers, cid) == Append(defers, cid)

\* lines 292-302: RunImage, defer CleanContainer(cid), steps := make(...)
RunImage(s) ==
    /\ Active(s) /\ rj[s].pc = "image"
    /\ LET wf == problems[ctx[s].problem].workflow[rj[s].idx + 1]
       IN  \E ok \in BOOLEAN :
             IF ok THEN /\ created' = [created EXCEPT ![s] = Append(@, rj[s].idx + 1)]
                        /\ rj' = [rj EXCEPT ![s].pc = "step", ![s].sidx = 0,
                                            ![s].defers = RegisterCleanup(@, rj[s].idx + 1),
                                            ![s].steps = [i \in 1..Len(wf.steps) |-> 0]]
                        /\ UNCHANGED <<ctx, submits, written>>
                   ELSE /\ FailWith(s, "failed to run judge container")
                        /\ UNCHANGED created
    /\ UNCHANGED <<phase, quota, nextId, users, hs, running, cleaned, execLog>>
    /\ UNCHANGED env

\* lines 304-306: the head of one iteration of the step loop
StepBegin(s) ==
    /\ Active(s) /\ rj[s].pc = "step"
    /\ rj[s].sidx < Len(rj[s].steps)
    /\ Persist(s, SetStatus(ctx[s], StepStatus(rj[s].idx, rj[s].sidx)))
    /\ rj' = [rj EXCEPT ![s].pc = "exec"]
    /\ UNCHANGED <<phase, quota, nextId, users, hs, running, created, cleaned, execLog>>
    /\ UNCHANGED env

\* (mutant) the error of ExecContainer is not looked at
StepFailed_noerr(ec, err) == ec # 0

\* line 326
StepFailed(ec, err) == ec # 0 \/ err

\* lines 320-340: ExecContainer and what follows it
ExecStep(s) ==
    /\ Active(s) /\ rj[s].pc = "exec"
    /\ \E r \in ExecOutcomes :
         /\ execLog' = [execLog EXCEPT ![s] =
                Append(@, [wf |-> rj[s].idx, step |-> rj[s].sidx,
                           ec |-> r.ec, err |-> r.err])]
         /\ IF StepFailed(r.ec, r.err)
            THEN FailWith(s, StepFailMsg(rj[s].idx, rj[s].sidx))
            ELSE /\ Persist(s, ctx[s])
                 /\ rj' = [rj EXCEPT ![s].pc = "step", ![s].sidx = @ + 1,
                                     ![s].steps[rj[s].sidx + 1] = r.ec]
    /\ UNCHANGED <<phase, quota, nextId, users, hs, running, created, cleaned>>
    /\ UNCHANGED env

\* (mutant) a workflow counts as successful when it has run a step
WorkflowResult_bysteps(logs, steps) ==
    [success |-> steps # <<>>, logs |-> logs, exit_code |-> 0, steps |-> steps]

\* lines 350-354: the WorkflowResult literal
WorkflowResult(logs, steps) ==
    [success |-> TRUE, logs |-> logs, exit_code |-> 0, steps |-> steps]

\* what GetContainerLogs may return, as the sequence of the characters of the
\* string: text in UTF-8, or the output of a program that wrote a byte that
\* is not UTF-8 (0xFF)
PlainLogs == <<"o", "k">>
ContainerLogs == {PlainLogs, <<"o", "0xFF">>}

\* lines 343-356: GetContainerLogs, returning logs, and the append to
\* ctx.WorkflowResults
WorkflowEndWith(logs, s) ==
    /\ Active(s) /\ rj[s].pc = "step"
    /\ rj[s].sidx >= Len(rj[s].steps)
    /\ \E err \in BOOLEAN :
         IF err THEN FailWith(s, "failed to get judge logs")
         ELSE /\ ctx' = [ctx EXCEPT ![s].workflow_results =
                            Append(@, WorkflowResult(logs, rj[s].steps))]
              /\ rj' = [rj EXCEPT ![s].pc = "wf", ![s].idx = @ + 1]
              /\ UNCHANGED <<submits, written>>
    /\ UNCHANGED <<phase, quota, nextId, users, hs, running, created, cleaned, execLog>>
    /\ UNCHANGED env

\* the same with a container whose output is UTF-8 text
WorkflowEnd(s) == WorkflowEndWith(PlainLogs, s)

\* lines 359-360
CollectBegin(s) ==
    /\ Active(s) /\ rj[s].pc = "wf"
    /\ rj[s].idx >= Len(problems[ctx[s].problem].workflow)
    /\ Persist(s, SetStatus(ctx[s], "collect_result"))
    /\ rj' = [rj EXCEPT ![s].pc = "collect"]
    /\ UNCHANGED <<phase, quota, nextId, users, hs, running, created, cleaned, execLog>>
    /\ UNCHANGED env

\* (mutant) the error of json.Unmarshal is not looked at
Collected_noparsecheck(c, f) ==
    IF f.kind = "missing"
    THEN SetMsg(SetStatus(c, "failed"), "failed to read result file")
    ELSE SetMsg(SetStatus([c EXCEPT !.judge_result = Unmarshal(@, f)], "completed"),
                "judge successfully finished")

\* lines 364-382: the SubmitCtx c after ReadFile and json.Unmarshal met file f
Collected(c, f) ==
    IF f.kind = "missing"
    THEN SetMsg(SetStatus(c, "failed"), "failed to read result file")
    ELSE LET d == [c EXCEPT !.judge_result = Unmarshal(@, f)]
         IN  IF f.kind # "ok"
             THEN SetMsg(SetStatus(d, "failed"), "failed to parse result file")
             ELSE SetMsg(SetStatus(d, "completed"), "judge successfully finished")

\* lines 364-382: ReadFile, json.Unmarshal into ctx.JudgeResult, completed.
\* json.Unmarshal decodes nothing from a file that is not valid JSON; from
\* valid JSON with a field of the wrong type it decodes the other fields and
\* then returns the error.
CollectResult(s) ==
    /\ Active(s) /\ rj[s].pc = "collect"
    /\ \E f \in ResultFiles :
         /\ rj' = [rj EXCEPT ![s].pc = "defer", ![s].file = f.kind]
         /\ Persist(s, Collected(ctx[s], f))
    /\ UNCHANGED <<phase, quota, nextId, users, hs, running, created, cleaned, execLog>>
    /\ UNCHANGED env

\* (mutant) the deferred calls run in the order of their registration
DeferOrder_fifo(defers) == defers

\* the order in which the deferred CleanContainer calls run at return
DeferOrder(defers) == Reverse(defers)

\* return: the deferred CleanContainer calls, last registered first
CleanContainer(s) ==
    /\ Active(s) /\ rj[s].pc = "defer"
    /\ rj[s].defers # <<>>
    /\ cleaned' = [cleaned EXCEPT ![s] = Append(@, Head(DeferOrder(rj[s].defers)))]
    /\ rj' = [rj EXCEPT ![s].defers = Reverse(Tail(DeferOrder(rj[s].defers)))]
    /\ UNCHANGED <<phase, quota, nextId, submits, users, ctx, hs, running, created,
                   written, execLog>>
    /\ UNCHANGED env

\* (mutant) the channel is closed a second time
Close_twice(ch) == ch + 2

\* close(ch), ch counting the times the channel has been closed
Close(ch) == ch + 1

\* lines 141-144: the first deferred function up to close(ctx.Running)
CloseRunning(s) ==
    /\ Active(s) /\ rj[s].pc = "defer"
    /\ rj[s].defers = <<>>
    /\ running' = [running EXCEPT ![s] = Close(@)]
    /\ rj' = [rj EXCEPT ![s].pc = "save"]
    /\ UNCHANGED <<phase, quota, nextId, submits, users, ctx, hs, created, cleaned,
                   written, execLog>>
    /\ UNCHANGED env

\* (mutant) the SubmitCtx as it was when the defer statement ran
ExitRecord_atdefer(c) == NewCtx(c.id, c.user, c.problem)

\* the record the deferred function hands to UpdateSubmit: ctx at exit
ExitRecord(c) == c

\* the SubmitCtx of handleSubmit is dropped once RunJudge has returned and
\* handleSubmit has: nothing refers to it any more
Released(c, rjpc, hspc) ==
    IF rjpc = "returned" /\ hspc = "done" THEN NoCtx ELSE c

\* line 145: the deferred UpdateSubmit, and the return
DeferredSave(s) ==
    /\ Active(s) /\ rj[s].pc = "save"
    /\ submits' = UpdateSubmit(submits, ExitRecord(ctx[s]))
    /\ written' = [written EXCEPT ![s] = Append(@, ExitRecord(ctx[s]).status)]
    /\ ctx' = [ctx EXCEPT ![s] = Released(Stamped(ExitRecord(@)), "returned", hs[s].pc)]
    /\ rj' = [rj EXCEPT ![s].pc = "returned"]
    /\ UNCHANGED <<phase, quota, nextId, users, hs, running, created, cleaned, execLog>>
    /\ UNCHANGED env

\* ------------------------------------- handleSubmit after <-ctx.Running
\* UpdateUserSubmitResult -> GetUserByID: the SELECT
FindUser(s) ==
    /\ phase = "serving" /\ hs[s].pc = "wait"
    /\ running[s] > 0
    /\ IF ctx[s].user \in DOMAIN users
       THEN hs' = [hs EXCEPT ![s].pc = "update", ![s].user = users[ctx[s].user]]
       ELSE hs' = [hs EXCEPT ![s].pc = "create"]
    /\ UNCHANGED <<phase, quota, nextId, submits, users, ctx, rj, running, created,
                   cleaned, written, execLog>>
    /\ UNCHANGED env

\* GetUserByID -> CreateUser: the INSERT fails on an existing primary key
CreateUser(s) ==
    /\ phase = "serving" /\ hs[s].pc = "create"
    /\ IF ctx[s].user \in DOMAIN users \/ ~dbUp
       THEN /\ hs' = [hs EXCEPT ![s].pc = "done", ![s].err = TRUE]
            /\ users' = users
            /\ ctx' = [ctx EXCEPT ![s] = Released(@, rj[s].pc, "done")]
       ELSE /\ users' = MapPut(users, ctx[s].user, NewUser(ctx[s].user))
            /\ hs' = [hs EXCEPT ![s].pc = "update", ![s].user = NewUser(ctx[s].user)]
            /\ ctx' = ctx
    /\ UNCHANGED <<phase, quota, nextId, submits, rj, running, created,
                   cleaned, written, execLog>>
    /\ UNCHANGED env

\* UpdateUserSubmitResult lines 112-121
UpdateUserSubmitResult(s) ==
    /\ phase = "serving" /\ hs[s].pc = "update"
    /\ users' = UpdateUser(users, ApplySubmit(hs[s].user, ctx[s], problems[ctx[s].problem]))
    /\ hs' = [hs EXCEPT ![s] = [NoWaiter EXCEPT !.pc = "done", !.err = ~dbUp]]
    /\ ctx' = [ctx EXCEPT ![s] = Released(@, rj[s].pc, "done")]
    /\ UNCHANGED <<phase, quota, nextId, submits, rj, running, created,
                   cleaned, written, execLog>>
    /\ UNCHANGED env

\* --------------------------------------------------------------------- Next
Next ==
    \/ Reaper
    \/ DoFullUserScan
    \/ Crash
    \/ \E u \in Submitters, pid \in Requests : HandleSubmit(u, pid)
    \/ \E s \in Ids : PrepDirs(s)
    \/ \E s \in Ids : MakeDirs(s)
    \/ \E s \in Ids : StageEntry(s)
    \/ \E s \in Ids : StagingDone(s)
    \/ \E s \in Ids : WorkflowBegin(s)
    \/ \E s \in Ids : RunImage(s)
    \/ \E s \in Ids : StepBegin(s)
    \/ \E s \in Ids : ExecStep(s)
    \/ \E s \in Ids : WorkflowEnd(s)
    \/ \E s \in Ids : CollectBegin(s)
    \/ \E s \in Ids : CollectResult(s)
    \/ \E s \in Ids : CleanContainer(s)
    \/ \E s \in Ids : CloseRunning(s)
    \/ \E s \in Ids : DeferredSave(s)
    \/ \E s \in Ids : FindUser(s)
    \/ \E s \in Ids : CreateUser(s)
    \/ \E s \in Ids : UpdateUserSubmitResult(s)

Spec == Init /\ [][Next]_vars

\* ------------------------------------------------- the session goes away
\* the user closes the SSH channel while RunJudge is at work on s: handleSubmit
\* stays blocked on <-ctx.Running and RunJudge is not told
CloseChannel(s) ==
    /\ phase = "serving"
    /\ rj[s].pc \notin {"none", "gone", "returned"}
    /\ hs[s].pc = "wait" /\ hs[s].channel = "open"
    /\ hs' = [hs EXCEPT ![s].channel = "closed"]
    /\ UNCHANGED <<phase, quota, nextId, submits, users, ctx, rj, running, created,
                   cleaned, written, execLog>>
    /\ UNCHANGED env

\* one step of the goroutine `go evaluator.RunJudge(&ctx, &pb)` for s
RunJudge(s) ==
    \/ PrepDirs(s) \/ MakeDirs(s) \/ StageEntry(s) \/ StagingDone(s)
    \/ WorkflowBegin(s) \/ RunImage(s) \/ StepBegin(s) \/ ExecStep(s)
    \/ WorkflowEnd(s) \/ CollectBegin(s) \/ CollectResult(s)
    \/ CleanContainer(s) \/ CloseRunning(s) \/ DeferredSave(s)

\* the user has no session open: none was begun, or handleSubmit has returned
NoSession == \A s \in Ids : hs[s].pc \in {"none", "done"}

\* the server while it stays up, with a user at one terminal, who submits
\* again when the session before has ended and who may close the channel
\* while RunJudge is at work
LiveNext ==
    \/ Reaper
    \/ DoFullUserScan
    \/ \E u \in Submitters, pid \in Requests : NoSession /\ HandleSubmit(u, pid)
    \/ \E s \in Ids : CloseChannel(s)
    \/ \E s \in Ids : PrepDirs(s)
    \/ \E s \in Ids : MakeDirs(s)
    \/ \E s \in Ids : StageEntry(s)
    \/ \E s \in Ids : StagingDone(s)
    \/ \E s \in Ids : WorkflowBegin(s)
    \/ \E s \in Ids : RunImage(s)
    \/ \E s \in Ids : StepBegin(s)
    \/ \E s \in Ids : ExecStep(s)
    \/ \E s \in Ids : WorkflowEnd(s)
    \/ \E s \in Ids : CollectBegin(s)
    \/ \E s \in Ids : CollectResult(s)
    \/ \E s \in Ids : CleanContainer(s)
    \/ \E s \in Ids : CloseRunning(s)
    \/ \E s \in Ids : DeferredSave(s)
    \/ \E s \in Ids : FindUser(s)
    \/ \E s \in Ids : CreateUser(s)
    \/ \E s \in Ids : UpdateUserSubmitResult(s)

\* the Go scheduler runs a runnable goroutine, and every container driver
\* call and every file operation of RunJudge returns: a step of RunJudge
\* that stays possible is taken
SpecLive == Init /\ [][LiveNext]_vars /\ \A s \in Ids : WF_vars(RunJudge(s))

\* ------------------------------------ the server under either configuration
\* the server started with cfg.SubmitsDir absolute or relative
StageNext ==
    \/ Reaper
    \/ DoFullUserScan
    \/ Crash
    \/ \E dir \in SubmitsDirs, u \in Submitters, pid \in Requests :
         HandleSubmitIn(dir, u, pid)
    \/ \E s \in Ids : PrepDirs(s)
    \/ \E s \in Ids : MakeDirs(s)
    \/ \E s \in Ids : StageEntry(s)
    \/ \E s \in Ids : StagingDone(s)
    \/ \E s \in Ids : WorkflowBegin(s)
    \/ \E s \in Ids : RunImage(s)
    \/ \E s \in Ids : StepBegin(s)
    \/ \E s \in Ids : ExecStep(s)
    \/ \E s \in Ids : WorkflowEnd(s)
    \/ \E s \in Ids : CollectBegin(s)
    \/ \E s \in Ids : CollectResult(s)
    \/ \E s \in Ids : CleanContainer(s)
    \/ \E s \in Ids : CloseRunning(s)
    \/ \E s \in Ids : DeferredSave(s)
    \/ \E s \in Ids : FindUser(s)
    \/ \E s \in Ids : CreateUser(s)
    \/ \E s \in Ids : UpdateUserSubmitResult(s)

SpecStage == Init /\ [][StageNext]_vars

\* the same program accepting one more submission, so that two may run
\* concurrently
InitRace == InitWith(MaxSubs + 1)
SpecRace == InitRace /\ [][Next]_vars

\* ------------------------------------------------- administrative operations
\* GetUserByID with no concurrent caller: the users table with the row of uid
GetUserByID(tbl, uid) ==
    IF uid \in DOMAIN tbl THEN tbl ELSE MapPut(tbl, uid, NewUser(uid))

\* (mutant) the comparison of the other two aggregator paths
RecalcSubmit_zero(u, s, probs) == ScanSubmit(u, s, probs)

\* one iteration of the loop of RecalculateUserBestScoresWithProblems
RecalcSubmit(u, s, probs) ==
    IF s.judge_result.success /\ s.problem \in DOMAIN probs
    THEN LET weightedScore == s.judge_result.score * probs[s.problem].weight
         IN  IF s.problem \notin DOMAIN u.best_scores
                \/ weightedScore > u.best_scores[s.problem]
             THEN [u EXCEPT !.best_scores = MapPut(@, s.problem, weightedScore),
                            !.best_submits = MapPut(@, s.problem, s.id),
                            !.best_submit_date = MapPut(@, s.problem, s.submit_time)]
             ELSE u
    ELSE u

RECURSIVE RecalcLoop(_, _, _)
RecalcLoop(u, rows, probs) ==
    IF rows = <<>> THEN u
    ELSE RecalcLoop(RecalcSubmit(u, Head(rows), probs), Tail(rows), probs)

\* RecalculateUserBestScoresWithProblems: the users tables it may leave; Find
\* returns the completed rows of the user in an order the query does not fix
Recalculated(utbl, stbl, uid, probs) ==
    LET tbl == GetUserByID(utbl, uid)
        mine == {id \in DOMAIN stbl :
                   stbl[id].user = uid /\ stbl[id].status = "completed"}
    IN  IF ~dbUp THEN {utbl} ELSE
        {UpdateUser(tbl, RecalcLoop(NewUser(uid),
                                    [i \in 1..Len(order) |-> stbl[order[i]]], probs)) :
           order \in Orders(mine)}

RecalculateUserBestScoresWithProblems(uid) ==
    /\ phase = "serving"
    /\ users' \in Recalculated(users, submits, uid, problems)
    /\ UNCHANGED <<phase, quota, nextId, submits, ctx, rj, hs, running, created,
                   cleaned, written, execLog>>
    /\ UNCHANGED env

DeleteSubmitByID(id) ==
    /\ phase = "serving"
    /\ id \in DOMAIN submits
    /\ submits' = Written(submits, MapDel(submits, id))
    /\ UNCHANGED <<phase, quota, nextId, users, ctx, rj, hs, running, created,
                   cleaned, written, execLog>>
    /\ UNCHANGED env

DeleteOldSubmits(beforeTime) ==
    /\ phase = "serving"
    /\ submits' = Written(submits,
                       [id \in {i \in DOMAIN submits :
                                  ~(submits[i].submit_time < beforeTime)} |-> submits[id]])
    /\ UNCHANGED <<phase, quota, nextId, users, ctx, rj, hs, running, created,
                   cleaned, written, execLog>>
    /\ UNCHANGED env

DeleteSubmitByIDWithProblems(id) ==
    /\ phase = "serving"
    /\ id \in DOMAIN submits
    /\ submits' = Written(submits, MapDel(submits, id))
    /\ users' \in Recalculated(users, submits', submits[id].user, problems)
    /\ UNCHANGED <<phase, quota, nextId, ctx, rj, hs, running, created,
                   cleaned, written, execLog>>
    /\ UNCHANGED env

ModifySubmissionResult(id, score) ==
    /\ phase = "serving"
    /\ id \in DOMAIN submits
    /\ LET submit == [submits[id] EXCEPT
                        !.judge_result = [success |-> score > 0, score |-> score],
                        !.msg = "rescored",
                        !.status = "completed"]
       IN  /\ submits' = UpdateSubmit(submits, submit)
           /\ users' \in Recalculated(users, submits', submit.user, problems)
    /\ UNCHANGED <<phase, quota, nextId, ctx, rj, hs, running, created,
                   cleaned, written, execLog>>
    /\ UNCHANGED env

AdminNext ==
    \/ \E uid \in UserIds : RecalculateUserBestScoresWithProblems(uid)
    \/ \E id \in Ids : DeleteSubmitByID(id)
    \/ \E t \in Ids : DeleteOldSubmits(t + 1)
    \/ \E id \in Ids : DeleteSubmitByIDWithProblems(id)
    \/ \E id \in Ids, score \in Scores : ModifySubmissionResult(id, score)

\* the program with an administrator at work while it serves
SpecAdmin == Init /\ [][Next \/ AdminNext]_vars

\* ------------------------------------------------------------ the store alone
\* the records RunJudge may leave in the store for the SubmitCtx c when it
\* has returned, as far as the operations of the store read them: status and
\* judge_result
RunJudgeOutcomes(c) ==
    {SetStatus(c, "failed")}
    \cup {[c EXCEPT !.status = IF f.kind = "ok" THEN "completed" ELSE "failed",
                    !.judge_result = Unmarshal(@, f)] :
            f \in {g \in ResultFiles : g.kind \notin {"missing", "syntax"}}}

\* handleSubmit from the go statement to its return, with no other
\* handleSubmit at work: RunJudge leaves the record c, UpdateUserSubmitResult
\* records it, unless the store fails it (ok = FALSE)
JudgeAndRecord(u, pid) ==
    /\ phase = "serving"
    /\ nextId <= quota
    /\ pid \in DOMAIN problems
    /\ \E c \in RunJudgeOutcomes(NewCtx(nextId, u, pid)), ok \in BOOLEAN :
         /\ submits' = UpdateSubmit(submits, c)
         /\ users' = IF ok /\ dbUp
                     THEN LET tbl == GetUserByID(users, u)
                          IN  UpdateUser(tbl, ApplySubmit(tbl[u], c, problems[pid]))
                     ELSE users
    /\ nextId' = nextId + 1
    /\ UNCHANGED <<phase, quota, ctx, rj, hs, running, created, cleaned, written,
                   execLog>>
    /\ UNCHANGED env

StoreNext ==
    \/ Reaper
    \/ DoFullUserScan
    \/ Crash
    \/ \E u \in UserIds, pid \in DOMAIN problems : JudgeAndRecord(u, pid)
    \/ AdminNext

\* the operations on the store one after the other, in any order
SpecStore == Init /\ [][StoreNext]_vars

\* the problems that differ for the aggregator: it reads their id and weight
\* only, and noop has the weight of sum
AggProblems == {pid \in DOMAIN problems : problems[pid].workflow # <<>>}

\* the aggregator alone: the submissions of one user, each judged and
\* recorded in one step, and the full rescan at every start of the process
AggNext ==
    \/ Reaper
    \/ DoFullUserScan
    \/ Crash
    \/ \E u \in Submitters, pid \in AggProblems : JudgeAndRecord(u, pid)

SpecAgg == InitRace /\ [][AggNext]_vars

\* ------------------------------------------------ the server under the clock
\* the last clock value of a run (a bound of the model)
MaxTime == MaxSubs + 1

\* the time passes
Tick ==
    /\ now < MaxTime
    /\ now' = now + 1
    /\ UNCHANGED <<phase, quota, nextId, submits, users, ctx, rj, hs, running,
                   created, cleaned, written, execLog, paused, dbUp, resp>>

\* line 292: the name RunImage gets for the container of workflow idx
ContainerName(id, idx) == <<"soj-judge", id, idx + 1>>

\* the server with its clock: handleSubmit takes the id and the submit time
\* from the clock as it stands (`subtime := time.Now()`), and every write
\* its time stamp
ClockNext ==
    \/ Reaper
    \/ DoFullUserScan
    \/ Crash
    \/ Tick
    \/ \E u \in Submitters, pid \in Requests : HandleSubmitAt(now, SubmitsDir, u, pid)
    \/ \E s \in Ids : PrepDirs(s)
    \/ \E s \in Ids : MakeDirs(s)
    \/ \E s \in Ids : StageEntry(s)
    \/ \E s \in Ids : StagingDone(s)
    \/ \E s \in Ids : WorkflowBegin(s)
    \/ \E s \in Ids : RunImage(s)
    \/ \E s \in Ids : StepBegin(s)
    \/ \E s \in Ids : ExecStep(s)
    \/ \E s \in Ids : WorkflowEnd(s)
    \/ \E s \in Ids : CollectBegin(s)
    \/ \E s \in Ids : CollectResult(s)
    \/ \E s \in Ids : CleanContainer(s)
    \/ \E s \in Ids : CloseRunning(s)
    \/ \E s \in Ids : DeferredSave(s)
    \/ \E s \in Ids : FindUser(s)
    \/ \E s \in Ids : CreateUser(s)
    \/ \E s \in Ids : UpdateUserSubmitResult(s)

SpecClock == Init /\ [][ClockNext]_vars

\* what `subtime := time.Now()` may read at an accept: the value the accept
\* before has read, when the clock has not moved between the two, or the
\* next one
Readings == {t \in Ids : nextId - 1 <= t /\ t <= nextId}

\* the server accepting two submissions that may run concurrently, each with
\* the clock value it reads
IdsNext ==
    \/ Reaper
    \/ DoFullUserScan
    \/ Crash
    \/ \E t \in Readings, u \in Submitters, pid \in Requests :
         HandleSubmitAt(t, SubmitsDir, u, pid)
    \/ \E s \in Ids : PrepDirs(s)
    \/ \E s \in Ids : MakeDirs(s)
    \/ \E s \in Ids : StageEntry(s)
    \/ \E s \in Ids : StagingDone(s)
    \/ \E s \in Ids : WorkflowBegin(s)
    \/ \E s \in Ids : RunImage(s)
    \/ \E s \in Ids : StepBegin(s)
    \/ \E s \in Ids : ExecStep(s)
    \/ \E s \in Ids : WorkflowEnd(s)
    \/ \E s \in Ids : CollectBegin(s)
    \/ \E s \in Ids : CollectResult(s)
    \/ \E s \in Ids : CleanContainer(s)
    \/ \E s \in Ids : CloseRunning(s)
    \/ \E s \in Ids : DeferredSave(s)
    \/ \E s \in Ids : FindUser(s)
    \/ \E s \in Ids : CreateUser(s)
    \/ \E s \in Ids : UpdateUserSubmitResult(s)

SpecIds == InitRace /\ [][IdsNext]_vars

\* ------------------------------------------- the server with a failing store
\* the store stops taking writes (disk full, database locked); the model
\* lets that begin once the run has taken its last submit command
StoreFails ==
    /\ dbUp
    /\ nextId > quota
    /\ dbUp' = FALSE
    /\ UNCHANGED <<phase, quota, nextId, submits, users, ctx, rj, hs, running,
                   created, cleaned, written, execLog, now, paused, resp>>

\* the store takes writes again
StoreRecovers ==
    /\ ~dbUp
    /\ dbUp' = TRUE
    /\ UNCHANGED <<phase, quota, nextId, submits, users, ctx, rj, hs, running,
                   created, cleaned, written, execLog, now, paused, resp>>

\* the problem submitted to while the store may fail: the one with files, a
\* directory, two workflows and steps
FaultRequests == {"hello"}

\* the server with a user at one terminal, who submits again when the
\* session before has ended, and a store that may fail any write
FaultNext ==
    \/ Reaper
    \/ DoFullUserScan
    \/ Crash
    \/ StoreFails
    \/ StoreRecovers
    \/ \E u \in Submitters, pid \in FaultRequests : NoSession /\ HandleSubmit(u, pid)
    \/ \E s \in Ids : PrepDirs(s)
    \/ \E s \in Ids : MakeDirs(s)
    \/ \E s \in Ids : StageEntry(s)
    \/ \E s \in Ids : StagingDone(s)
    \/ \E s \in Ids : WorkflowBegin(s)
    \/ \E s \in Ids : RunImage(s)
    \/ \E s \in Ids : StepBegin(s)
    \/ \E s \in Ids : ExecStep(s)
    \/ \E s \in Ids : WorkflowEnd(s)
    \/ \E s \in Ids : CollectBegin(s)
    \/ \E s \in Ids : CollectResult(s)
    \/ \E s \in Ids : CleanContainer(s)
    \/ \E s \in Ids : CloseRunning(s)
    \/ \E s \in Ids : DeferredSave(s)
    \/ \E s \in Ids : FindUser(s)
    \/ \E s \in Ids : CreateUser(s)
    \/ \E s \in Ids : UpdateUserSubmitResult(s)

SpecFault == Init /\ [][FaultNext]_vars

\* ------------------------------------ the server with any container output
\* the server judging programs that print whatever bytes they like
CodecNext ==
    \/ Reaper
    \/ DoFullUserScan
    \/ Crash
    \/ \E u \in Submitters, pid \in Requests : HandleSubmit(u, pid)
    \/ \E s \in Ids : PrepDirs(s)
    \/ \E s \in Ids : MakeDirs(s)
    \/ \E s \in Ids : StageEntry(s)
    \/ \E s \in Ids : StagingDone(s)
    \/ \E s \in Ids : WorkflowBegin(s)
    \/ \E s \in Ids : RunImage(s)
    \/ \E s \in Ids : StepBegin(s)
    \/ \E s \in Ids : ExecStep(s)
    \/ \E s \in Ids, logs \in ContainerLogs : WorkflowEndWith(logs, s)
    \/ \E s \in Ids : CollectBegin(s)
    \/ \E s \in Ids : CollectResult(s)
    \/ \E s \in Ids : CleanContainer(s)
    \/ \E s \in Ids : CloseRunning(s)
    \/ \E s \in Ids : DeferredSave(s)
    \/ \E s \in Ids : FindUser(s)
    \/ \E s \in Ids : CreateUser(s)
    \/ \E s \in Ids : UpdateUserSubmitResult(s)

SpecCodec == Init /\ [][CodecNext]_vars

\* --------------------------------------------------- the SSH command handler
\* cfg.Admins
Admins == {"root"}

\* the users that open sessions and send requests
Clients == UserIds \cup Admins

\* IsAdmin
IsAdmin(u) == u \in Admins

\* the commands a session may bring: submit and sub with a problem id and
\* without, and the administrator's pause
Commands ==
    {<<c, pid>> : c \in {"submit", "sub"}, pid \in Requests}
    \cup {<<"submit">>, <<"adm", "pause">>}

\* main, the Handler of ssh.Server: which function gets the session
Handler(cmds) ==
    IF Len(cmds) >= 2 /\ (cmds[1] = "submit" \/ cmds[1] = "sub")
    THEN "handleSubmit"
    ELSE "HandleSession"

\* SSHHandler.handleSubmit: what it prints
SshHandleSubmit(cmds, isPaused) ==
    IF Len(cmds) # 2 THEN "invalid arguments"
    ELSE IF isPaused THEN "submit is paused. Please try again later"
    ELSE "Submit functionality will be implemented in main.go using judge module"

\* SSHHandler.handleAdmin: what it prints and the pause flag it leaves
HandleAdmin(u, cmds, isPaused) ==
    IF ~IsAdmin(u) THEN [out |-> "unknown command", paused |-> isPaused]
    ELSE IF Len(cmds) < 2 THEN [out |-> "invalid arguments", paused |-> isPaused]
    ELSE IF cmds[2] = "pause" THEN [out |-> "Submit paused", paused |-> TRUE]
    ELSE [out |-> "", paused |-> isPaused]

\* a session with the command cmds that main hands to handleSubmit
SubmitSession(u, cmds) ==
    /\ Handler(cmds) = "handleSubmit"
    /\ Len(cmds) = 2
    /\ HandleSubmit(u, cmds[2])

\* a session with the command cmds that main hands to
\* SSHHandler.HandleSession; resp keeps what the session printed
HandleSession(u, cmds) ==
    /\ phase = "serving"
    /\ Handler(cmds) = "HandleSession"
    /\ LET r == IF cmds[1] \in {"submit", "sub"}
                THEN [out |-> SshHandleSubmit(cmds, paused), paused |-> paused]
                ELSE HandleAdmin(u, cmds, paused)
       IN  /\ paused' = r.paused
           /\ resp' = [route |-> "ssh", to |-> u, status |-> 0, data |-> <<r.out>>]
    /\ UNCHANGED <<phase, quota, nextId, submits, users, ctx, rj, hs, running,
                   created, cleaned, written, execLog, now, dbUp>>

\* the server with users and an administrator at their terminals
SessionNext ==
    \/ Reaper
    \/ DoFullUserScan
    \/ Crash
    \/ \E u \in Submitters, cmds \in Commands : SubmitSession(u, cmds)
    \/ \E u \in Clients, cmds \in Commands : HandleSession(u, cmds)
    \/ \E s \in Ids : PrepDirs(s)
    \/ \E s \in Ids : MakeDirs(s)
    \/ \E s \in Ids : StageEntry(s)
    \/ \E s \in Ids : StagingDone(s)
    \/ \E s \in Ids : WorkflowBegin(s)
    \/ \E s \in Ids : RunImage(s)
    \/ \E s \in Ids : StepBegin(s)
    \/ \E s \in Ids : ExecStep(s)
    \/ \E s \in Ids : WorkflowEnd(s)
    \/ \E s \in Ids : CollectBegin(s)
    \/ \E s \in Ids : CollectResult(s)
    \/ \E s \in Ids : CleanContainer(s)
    \/ \E s \in Ids : CloseRunning(s)
    \/ \E s \in Ids : DeferredSave(s)
    \/ \E s \in Ids : FindUser(s)
    \/ \E s \in Ids : CreateUser(s)
    \/ \E s \in Ids : UpdateUserSubmitResult(s)

SpecSession == Init /\ [][SessionNext]_vars


\* -------------------------------------------------------- the HTTP read API
\* CreateUser: the token of a new user, a fresh uuid, so one per user and
\* never the token of another
TokenOf(u) == <<"uuid", u>>

\* a request without the token cookie
NoCookie == <<>>

\* the cookies a request may carry
Cookies == {TokenOf(u) : u \in Clients} \cup {NoCookie}

\* GetUserByToken: the ids of the users with that token
GetUserByToken(utbl, token) == {u \in DOMAIN utbl : TokenOf(u) = token}

\* AuthMiddleware: the answer that ends the request, or the user and the
\* admin flag put in the context
AuthMiddleware(utbl, token) ==
    IF token = NoCookie \/ GetUserByToken(utbl, token) = {}
    THEN [ok |-> FALSE, user |-> "", is_admin |-> FALSE]
    ELSE LET u == CHOOSE v \in GetUserByToken(utbl, token) : TRUE
         IN  [ok |-> TRUE, user |-> u, is_admin |-> IsAdmin(u)]

\* Order("id desc")
RECURSIVE IdDesc(_)
IdDesc(S) ==
    IF S = {} THEN <<>>
    ELSE LET m == CHOOSE x \in S : \A y \in S : y <= x
         IN  <<m>> \o IdDesc(S \ {m})

\* GetSubmitsForAPI, first page: the selected columns of every row, the
\* highest id first
GetSubmitsForAPI(tbl) ==
    LET ids == IdDesc(DOMAIN tbl)
    IN  [i \in 1..Len(ids) |->
           [id |-> tbl[ids[i]].id, user |-> tbl[ids[i]].user,
            problem |-> tbl[ids[i]].problem,
            submit_time |-> tbl[ids[i]].submit_time,
            status |-> tbl[ids[i]].status, msg |-> tbl[ids[i]].msg,
            judge_result |-> tbl[ids[i]].judge_result]]

\* GetAllUsersOrderedByScore: the user records in an order of descending
\* total_score
GetAllUsersOrderedByScore(utbl) ==
    {[i \in 1..Len(o) |-> utbl[o[i]]] :
        o \in {p \in Orders(DOMAIN utbl) :
                 \A i \in 1..Len(p) - 1 :
                    utbl[p[i]].total_score >= utbl[p[i + 1]].total_score}}

\* listSubmits: the body of the answer to user
ListSubmits(tbl, user, admin) ==
    LET rows == GetSubmitsForAPI(tbl)
    IN  [i \in 1..Len(rows) |->
           IF ~admin /\ rows[i].user # user
           THEN [rows[i] EXCEPT !.user = "Anonymous"]
           ELSE rows[i]]

\* getSubmitDetail: status and body of the answer to user
GetSubmitDetail(tbl, id, user, admin) ==
    LET r == GetSubmitByID(tbl, id)
    IN  IF ~r.found THEN [status |-> 404, data |-> <<>>]
        ELSE IF ~admin /\ r.submit.user # user
             THEN [status |-> 403, data |-> <<>>]
             ELSE [status |-> 200, data |-> <<r.submit>>]

Routes == {"rank", "list", "my", "status"}

\* the SSH command token: handleToken, which creates the user's record with
\* its token when there is none
HandleToken(u) ==
    /\ phase = "serving"
    /\ u \notin DOMAIN users
    /\ users' = Written(users, GetUserByID(users, u))
    /\ UNCHANGED <<phase, quota, nextId, submits, ctx, rj, hs, running,
                   created, cleaned, written, execLog>>
    /\ UNCHANGED env

\* GET /api/v1/<route> with the cookie token; id is the parameter of
\* status/:id
HttpRequest(token, route, id) ==
    /\ phase = "serving"
    /\ LET a == AuthMiddleware(users, token)
       IN  IF ~a.ok
           THEN resp' = [route |-> route, to |-> "", status |-> 401, data |-> <<>>]
           ELSE \E body \in
                    CASE route = "list" ->
                           {[status |-> 200,
                             data |-> ListSubmits(submits, a.user, a.is_admin)]}
                      [] route = "status" ->
                           {GetSubmitDetail(submits, id, a.user, a.is_admin)}
                      [] route = "rank" ->
                           {[status |-> 200, data |-> d] :
                               d \in GetAllUsersOrderedByScore(users)}
                      [] OTHER ->
                           {[status |-> 200, data |-> <<users[a.user]>>]} :
                  resp' = [route |-> route, to |-> a.user,
                           status |-> body.status, data |-> body.data]
    /\ UNCHANGED <<phase, quota, nextId, submits, users, ctx, rj, hs, running,
                   created, cleaned, written, execLog, now, paused, dbUp>>

\* the store with the users at their terminals and at the HTTP API
HttpNext ==
    \/ Reaper
    \/ DoFullUserScan
    \/ Crash
    \/ \E u \in UserIds, pid \in DOMAIN problems : JudgeAndRecord(u, pid)
    \/ \E u \in Clients : HandleToken(u)
    \/ \E token \in Cookies, route \in Routes, id \in Ids :
          HttpRequest(token, route, id)

SpecHttp == Init /\ [][HttpNext]_vars

\* ==================================================================== claims
Live(s) == rj[s].pc \notin {"none", "gone", "returned"}
Range(q) == {q[i] : i \in 1..Len(q)}
Count(q, x) == Cardinality({i \in 1..Len(q) : q[i] = x})

RECURSIVE Flatten(_)
Flatten(qq) == IF qq = <<>> THEN <<>> ELSE Head(qq) \o Flatten(Tail(qq))

\* the order of the statuses of a submission to problem pid, as the
\* specification lists it (section 4.4)
StatusOrder(pid) ==
    LET wfs == problems[pid].workflow
    IN  <<"init", "prep_dirs", "prep_files", "run_workflow">>
        \o Flatten([i \in 1..Len(wfs) |->
              <<"run_workflow-" \o ToString(i - 1)>>
              \o [j \in 1..Len(wfs[i].steps) |->
                    "run_workflow-" \o ToString(i - 1) \o "_" \o ToString(j - 1)]])
        \o <<"collect_result", "completed">>

\* position of status st in that order, 0 when it is not in it
Rank(pid, st) ==
    LET ord == StatusOrder(pid)
    IN  IF st \in Range(ord) THEN CHOOSE i \in 1..Len(ord) : ord[i] = st ELSE 0

C2_TerminalIsFinal ==
    [][\A id \in DOMAIN submits :
         submits[id].status \in Terminal =>
           id \in DOMAIN submits' /\ submits'[id].status = submits[id].status]_vars

C2_Witness ==
    \E id \in DOMAIN submits :
        /\ rj[id].pc = "returned"
        /\ submits[id].status = "failed"
        /\ Len(written[id]) >= 2
        /\ written[id][Len(written[id]) - 1] = "failed"

\* C3: when RunJudge has returned, on whatever path, every container that
\* RunImage created for the submission has had CleanContainer called on it
\* exactly once; at no time is a container cleaned twice or a container
\* cleaned that was not created.
C3_ContainersCleaned ==
    \A s \in Ids :
        /\ \A c \in Range(cleaned[s]) :
              c \in Range(created[s]) /\ Count(cleaned[s], c) = 1
        /\ rj[s].pc = "returned" =>
              \A c \in Range(created[s]) : Count(cleaned[s], c) = 1

C3_Witness ==
    \E s \in Ids :
        /\ rj[s].pc = "returned"
        /\ s \in DOMAIN submits /\ submits[s].status = "failed"
        /\ Len(created[s]) = 2
        /\ Len(cleaned[s]) = 2

\* the steps of a problem in list order: <<workflow index, step index>>
AllSteps(pid) ==
    LET wfs == problems[pid].workflow
    IN  Flatten([i \in 1..Len(wfs) |->
                   [j \in 1..Len(wfs[i].steps) |-> <<i - 1, j - 1>>]])

\* C4: the steps a submission has executed are a prefix of its problem's
\* steps in list order (workflows in order, steps in order within each), all
\* of them but possibly the last returned exit code 0 without error, and the
\* container of workflow i exists only if every step of the workflows before
\* i has returned exit code 0 without error.
C4_StepOrder ==
    \A s \in Ids :
        Live(s) =>
          LET log == execLog[s]
              all == AllSteps(ctx[s].problem)
              good(k) == log[k].ec = 0 /\ ~log[k].err
          IN  /\ Len(log) <= Len(all)
              /\ \A k \in 1..Len(log) : <<log[k].wf, log[k].step>> = all[k]
              /\ \A k \in 1..(Len(log) - 1) : good(k)
              /\ created[s] = [n \in 1..Len(created[s]) |-> n]
              /\ \A n \in Range(created[s]) :
                    \A k \in 1..Len(all) :
                        all[k][1] < n - 1 => k <= Len(log) /\ good(k)
              /\ \A k \in 1..Len(log) :
                    ~good(k) => Len(created[s]) = log[k].wf + 1

C4_Witness ==
    \E s \in Ids :
        /\ Live(s)
        /\ Len(execLog[s]) = 3
        /\ execLog[s][3].wf = 1
        /\ execLog[s][3].err

\* C5: every submission whose stored status is completed has one entry in
\* workflow_results per workflow of its problem, each entry has one step
\* result per step of that workflow, and every step result is exit code 0.
C5_CompletedHasAllResults ==
    \A id \in DOMAIN submits :
        submits[id].status = "completed" =>
          LET wfs == problems[submits[id].problem].workflow
              res == submits[id].workflow_results
          IN  /\ Len(res) = Len(wfs)
              /\ \A i \in 1..Len(res) :
                    /\ Len(res[i].steps) = Len(wfs[i].steps)
                    /\ \A j \in 1..Len(res[i].steps) : res[i].steps[j] = 0

\* C6: the startup reaper rewrites every row whose status is not completed,
\* failed or dead to dead and leaves every other row as it is; after it has
\* run, a row with a non-terminal status belongs to a pipeline running in
\* this process, and no pipeline runs for a row the reaper marked dead.
C6_Reaper ==
    /\ [](\A id \in DOMAIN submits :
            /\ submits[id].status \notin Terminal =>
                 phase = "boot" \/ (phase = "serving" /\ Active(id))
            /\ submits[id].status = "dead" => rj[id].pc = "gone")
    /\ [][phase = "boot" /\ phase' = "scan" =>
            /\ DOMAIN submits' = DOMAIN submits
            /\ \A id \in DOMAIN submits :
                 submits'[id] =
                   [submits[id] EXCEPT !.status =
                      IF @ \in {"completed", "failed", "dead"} THEN @ ELSE "dead"]]_vars

C6_Witness ==
    /\ phase = "scan"
    /\ \E id \in DOMAIN submits :
         submits[id].status = "dead" /\ submits[id].workflow_results # <<>>

\* C7: every stored user has total_score equal to the sum of the values of
\* its best_scores, whatever operations of the store have run: lazy creation,
\* incremental update, full rescan, targeted rescan, deletion with rescan,
\* rescoring.
C7_TotalIsSum ==
    \A u \in DOMAIN users :
        users[u].total_score = SumValues(users[u].best_scores)

C7_Witness ==
    \E u \in DOMAIN users :
        /\ DOMAIN users[u].best_scores # {}
        /\ users[u].total_score < 0

\* C8: for every user u and problem p with best_submits[p] = sid, the row sid
\* is in the store, belongs to u, is completed and successful, and its score
\* times the weight of p is best_scores[p].
C8_BestSubmitExists ==
    \A u \in DOMAIN users :
        \A p \in DOMAIN users[u].best_submits :
            LET sid == users[u].best_submits[p]
            IN  /\ sid \in DOMAIN submits
                /\ submits[sid].user = u
                /\ submits[sid].problem = p
                /\ submits[sid].status = "completed"
                /\ submits[sid].judge_result.success
                /\ p \in DOMAIN problems
                /\ p \in DOMAIN users[u].best_scores
                /\ submits[sid].judge_result.score * problems[p].weight
                     = users[u].best_scores[p]

\* the weighted score of a stored row
Weighted(row) == row.judge_result.score * problems[row.problem].weight
Improves(row) ==
    row.status = "completed" /\ row.judge_result.success /\ Weighted(row) > 0
Recorded(row) ==
    /\ row.user \in DOMAIN users
    /\ row.problem \in DOMAIN users[row.user].best_scores
    /\ users[row.user].best_scores[row.problem] >= Weighted(row)

\* C9: when the handleSubmit of two submissions of one user have both
\* finished their UpdateUserSubmitResult in one run of the process, neither
\* call has failed, and the stored user holds, for each of the two that is
\* completed and successful with a positive weighted score, a best score for
\* its problem that is at least that score.
C9_BothUpdatesKept ==
    \A a \in Ids : \A b \in Ids :
        (/\ a # b
         /\ hs[a].pc = "done" /\ hs[b].pc = "done"
         /\ a \in DOMAIN submits /\ b \in DOMAIN submits
         /\ submits[a].user = submits[b].user)
        => /\ ~hs[a].err /\ ~hs[b].err
           /\ Improves(submits[a]) => Recorded(submits[a])
           /\ Improves(submits[b]) => Recorded(submits[b])

\* C10: a completed and successful submission to a known problem becomes the
\* user's best for the problem when the user has no best_scores entry for it,
\* whatever its weighted score, and when its weighted score is strictly
\* greater than the entry; this in the incremental update and, for the
\* missing entry, in the full rescan.
C10_MissingIsLowest ==
    [][/\ \A s \in Ids :
            (/\ hs[s].pc = "update" /\ hs'[s].pc = "done"
             /\ ctx[s].status = "completed" /\ ctx[s].judge_result.success)
            => LET old == hs[s].user.best_scores
                   p == ctx[s].problem
                   new == users'[ctx[s].user]
               IN  IF p \notin DOMAIN old \/ Weighted(ctx[s]) > old[p]
                   THEN /\ p \in DOMAIN new.best_scores
                        /\ new.best_scores[p] = Weighted(ctx[s])
                        /\ new.best_submits[p] = s
                   ELSE new.best_scores = old
       /\ (phase = "scan" /\ phase' = "serving") =>
            \A id \in DOMAIN submits :
                (/\ submits[id].status = "completed"
                 /\ submits[id].judge_result.success
                 /\ submits[id].problem \in DOMAIN problems)
                => submits[id].problem \in DOMAIN users'[submits[id].user].best_scores]_vars

\* a stored row that the aggregator counts: completed, successful, known problem
Counts(row) ==
    /\ row.status = "completed"
    /\ row.judge_result.success
    /\ row.problem \in DOMAIN problems

\* row ties with the entry user record u has for its problem
Ties(u, row) ==
    /\ row.user = u.id
    /\ Counts(row)
    /\ row.problem \in DOMAIN u.best_scores
    /\ Weighted(row) = u.best_scores[row.problem]

\* the completed rows of user uid, as the targeted rescan loads them
CompletedOf(uid) ==
    {id \in DOMAIN submits :
       submits[id].user = uid /\ submits[id].status = "completed"}

\* C11: a submission whose weighted score equals the recorded best of its
\* user and problem changes nothing in the user record, in the update rule of
\* the incremental update, of the full rescan and of the targeted rescan; and
\* a targeted rescan, in whatever order it loads the rows, ends with
\* best_submits[p] and best_submit_date[p] of the first row it loaded among
\* those with the best score.
C11_TieKeepsFirst ==
    /\ \A u \in DOMAIN users : \A id \in DOMAIN submits :
         Ties(users[u], submits[id]) =>
           /\ ApplySubmit(users[u], submits[id], problems[submits[id].problem]) = users[u]
           /\ ScanSubmit(users[u], submits[id], problems) = users[u]
           /\ RecalcSubmit(users[u], submits[id], problems) = users[u]
    /\ \A uid \in UserIds : \A order \in Orders(CompletedOf(uid)) :
         LET res == RecalcLoop(NewUser(uid), RowsIn(submits, order), problems)
         IN  \A p \in DOMAIN res.best_submits :
               LET hits == {i \in 1..Len(order) :
                              /\ Counts(submits[order[i]])
                              /\ submits[order[i]].problem = p
                              /\ Weighted(submits[order[i]]) = res.best_scores[p]}
                   first == CHOOSE i \in hits : \A j \in hits : i <= j
               IN  /\ hits # {}
                   /\ res.best_submits[p] = order[first]
                   /\ res.best_submit_date[p] = submits[order[first]].submit_time

C11_Witness ==
    \E a \in DOMAIN submits : \E b \in DOMAIN submits :
        /\ a < b
        /\ submits[a].user = submits[b].user
        /\ submits[a].problem = submits[b].problem
        /\ Counts(submits[a]) /\ Counts(submits[b])
        /\ Weighted(submits[a]) = Weighted(submits[b])
        /\ Weighted(submits[a]) > 0
        /\ submits[a].user \in DOMAIN users
        /\ submits[a].problem \in DOMAIN users[submits[a].user].best_submits
        /\ users[submits[a].user].best_submits[submits[a].problem] = a

\* C12: an incremental update never removes or lowers an entry of
\* best_scores, and when the submission it records has a lower weighted score
\* than the entry of its user and problem, the three entries for that problem
\* stay as they are.
C12_BestNeverDecreases ==
    [][nextId' = nextId + 1 =>
         \A u \in DOMAIN users :
            /\ u \in DOMAIN users'
            /\ \A p \in DOMAIN users[u].best_scores :
                 /\ p \in DOMAIN users'[u].best_scores
                 /\ users'[u].best_scores[p] >= users[u].best_scores[p]
                 /\ LET row == submits'[nextId]
                    IN  (row.user = u /\ row.problem = p /\ Weighted(row) < users[u].best_scores[p])
                        => /\ users'[u].best_scores[p] = users[u].best_scores[p]
                           /\ users'[u].best_submits[p] = users[u].best_submits[p]
                           /\ users'[u].best_submit_date[p] = users[u].best_submit_date[p]]_vars

C12_Witness ==
    /\ "alice" \in DOMAIN users
    /\ "hello" \in DOMAIN users["alice"].best_scores
    /\ users["alice"].best_scores["hello"] = 4
    /\ users["alice"].best_submits["hello"] = 1
    /\ 2 \in DOMAIN submits
    /\ submits[2].user = "alice" /\ submits[2].problem = "hello"
    /\ Counts(submits[2]) /\ Weighted(submits[2]) = 2

\* C13: when the process is about to run DoFullUserScan, a second scan right
\* after a first one that did not die leaves the users table exactly as the
\* first left it, in whatever order either of them loads the submissions.
C13_ScanIdempotent ==
    phase = "scan" =>
      \A o1 \in Orders(DOMAIN submits) :
        LET r1 == ScanResult(users, RowsIn(submits, o1), problems)
        IN  ~r1.fatal =>
              \A o2 \in Orders(DOMAIN submits) :
                LET r2 == ScanResult(r1.users, RowsIn(submits, o2), problems)
                IN  ~r2.fatal /\ r2.users = r1.users

C13_Witness ==
    /\ phase = "scan"
    /\ Cardinality(DOMAIN submits) >= 2
    /\ \E o1 \in Orders(DOMAIN submits) :
         LET r1 == ScanResult(users, RowsIn(submits, o1), problems)
         IN  ~r1.fatal /\ r1.users # users

\* the ids of S in ascending order
Ascending(S) == CHOOSE q \in Orders(S) : \A i \in 1..Len(q) : \A j \in 1..Len(q) :
                                            i < j => q[i] < q[j]

\* UpdateUserSubmitResult for each of `rows` in turn, on the users table tbl
RECURSIVE IncrementalLoop(_, _)
IncrementalLoop(tbl, rows) ==
    IF rows = <<>> THEN tbl
    ELSE LET row == Head(rows)
             t1 == GetUserByID(tbl, row.user)
         IN  IncrementalLoop(
               UpdateUser(t1, ApplySubmit(t1[row.user], row, problems[row.problem])),
               Tail(rows))

\* C14: when the process is about to run DoFullUserScan, the users table the
\* scan leaves (if it does not die) is the table obtained from no users at
\* all by UpdateUserSubmitResult for every stored submission in ascending
\* order of id.
C14_ScanIsIncremental ==
    phase = "scan" =>
      \A order \in Orders(DOMAIN submits) :
          LET r == ScanResult(users, RowsIn(submits, order), problems)
          IN  ~r.fatal =>
                r.users = IncrementalLoop(EmptyMap, RowsIn(submits, Ascending(DOMAIN submits)))

C16_ExitOrder ==
    [][\A s \in Ids :
         /\ running'[s] > 0 =>
              /\ s \in DOMAIN submits'
              /\ submits'[s].status \in {"completed", "failed"}
         /\ hs'[s].pc \in {"create", "update", "done"} => running'[s] > 0
         /\ (running[s] > 0 /\ running'[s] > 0) => written'[s] = written[s]]_vars

\* C17: Running is closed at most once, it has been closed exactly once when
\* RunJudge has returned, whatever the path, it is not closed while RunJudge
\* is still at work, and when it is closed the status of the SubmitCtx is
\* completed or failed.
C17_ClosedOnce ==
    \A s \in Ids :
        /\ running[s] <= 1
        /\ rj[s].pc \in {"save", "returned"} => running[s] = 1
        /\ running[s] >= 1 =>
             /\ rj[s].pc \in {"save", "returned"}
             /\ ctx[s].id # 0 => ctx[s].status \in {"completed", "failed"}

C17_Witness ==
    \E s \in Ids :
        /\ rj[s].pc = "returned"
        /\ running[s] = 1
        /\ ctx[s].msg = "failed to get judge logs"

\* C18: RunJudge reads result.json only when every workflow has succeeded and
\* collect_result has been written; the submission is completed, with message
\* "judge successfully finished", exactly when the file was read and parsed
\* without error; a read error gives failed with "failed to read result
\* file", a parse error failed with "failed to parse result file"; and for a
\* problem without workflows collect_result follows run_workflow at once and
\* no container is created.
C18_CollectResult ==
    \A s \in Ids :
        (rj[s].pc \in {"defer", "save", "returned"} /\ ctx[s].id # 0) =>
          LET c == ctx[s]
              w == written[s]
              file == rj[s].file
          IN  /\ c.status = "completed" <=> file = "ok"
              /\ c.status = "completed" => c.msg = "judge successfully finished"
              /\ file = "missing" =>
                   c.status = "failed" /\ c.msg = "failed to read result file"
              /\ file \in {"syntax", "badscore", "badsuccess"} =>
                   c.status = "failed" /\ c.msg = "failed to parse result file"
              /\ file = "none" =>
                   /\ c.status = "failed"
                   /\ c.msg \notin {"failed to read result file",
                                    "failed to parse result file"}
              /\ file # "none" =>
                   /\ Len(c.workflow_results) = Len(problems[c.problem].workflow)
                   /\ \E i \in 1..(Len(w) - 1) :
                        /\ w[i] = "collect_result"
                        /\ w[i + 1] = c.status
                        /\ \A j \in 1..(i - 1) : w[j] \notin {"completed", "collect_result"}
              /\ problems[c.problem].workflow = <<>> =>
                   /\ created[s] = <<>>
                   /\ Len(w) >= 4 => w[3] = "run_workflow" /\ w[4] = "collect_result"

C18_Witness ==
    \E s \in Ids :
        /\ rj[s].pc = "returned"
        /\ ctx[s].problem = "noop"
        /\ ctx[s].status = "completed"
        /\ rj[s].file = "ok"

\* C19: every submission the pipeline has ended in failed has the zero
\* judge_result in the store.
C19_FailedHasZeroResult ==
    \A id \in DOMAIN submits :
        submits[id].status = "failed" => submits[id].judge_result = ZeroJudgeResult

\* C20: closing the SSH channel does not abort a running submission: every
\* submission handleSubmit has accepted, with its channel open or closed,
\* eventually has completed or failed as its status in the store, and while
\* RunJudge is at work on it a step of RunJudge is possible whatever the
\* front-end does.
C20_RunsToCompletion ==
    /\ \A s \in 1..MaxSubs :
         Live(s) ~> (s \in DOMAIN submits /\ submits[s].status \in {"completed", "failed"})
    /\ [](\A s \in Ids : Live(s) => ENABLED RunJudge(s))

C20_Witness ==
    \E s \in Ids :
        /\ hs[s].channel = "closed"
        /\ rj[s].pc = "returned"
        /\ s \in DOMAIN submits
        /\ submits[s].status = "completed"

\* C21: a submit command that names a problem id that is not loaded is
\* turned away before a SubmitCtx exists: the step that handles it leaves the
\* store, the users, every SubmitCtx, every pipeline, the workdirs and the
\* containers as they are, and no SubmitCtx and no stored submission ever
\* names a problem that is not loaded.
C21_UnknownProblemRejected ==
    [][/\ quota' # quota =>
            UNCHANGED <<nextId, submits, users, ctx, rj, hs, running, created,
                        cleaned, written, execLog>>
       /\ \A s \in Ids : ctx'[s].id # 0 => ctx'[s].problem \in DOMAIN problems
       /\ \A id \in DOMAIN submits' : submits'[id].problem \in DOMAIN problems]_vars

C21_Witness ==
    /\ phase = "serving"
    /\ quota < MaxSubs
    /\ nextId = 1
    /\ submits = EmptyMap /\ users = EmptyMap
    /\ \A s \in Ids : ctx[s] = NoCtx /\ rj[s] = NoFrame /\ created[s] = <<>>

\* C22: at any time a user has at most one submission that is not terminal,
\* among the pipelines at work and among the rows of the store: a submit
\* command of a user who has one starts no second pipeline.
C22_OneInFlight ==
    \A u \in UserIds :
        /\ Cardinality({s \in Ids : Live(s) /\ ctx[s].user = u}) <= 1
        /\ Cardinality({id \in DOMAIN submits :
                          /\ submits[id].user = u
                          /\ submits[id].status \notin {"completed", "failed", "dead"}}) <= 1

\* C23: once RunJudge has created the workdir or staged a file the store has
\* a row for the submission, and the first status ever written to the store
\* for a submission is init.
C23_InitPersistedFirst ==
    \A s \in Ids :
        /\ rj[s].pc \notin {"none", "gone", "start", "mkdir"} => s \in DOMAIN submits
        /\ written[s] # <<>> => written[s][1] = "init"

\* C24: when the step with index sx of the workflow with index i has come
\* back with a non-zero exit code or an error, the submission is failed with
\* message "failed to run judge <i+1> step <sx+1>", the status written to the
\* store just before failed was run_workflow-<i>_<sx>, workflow_results holds
\* the i earlier workflows and none for workflow i, and RunJudge executes no
\* further step, creates no further container and only leaves.
C24_StepFailure ==
    \A s \in Ids :
        (ctx[s].id # 0 /\ execLog[s] # <<>>) =>
          LET last == execLog[s][Len(execLog[s])]
              i == last.wf
              sx == last.step
              w == written[s]
          IN  (last.ec # 0 \/ last.err) =>
                /\ ctx[s].status = "failed"
                /\ ctx[s].msg = "failed to run judge " \o ToString(i + 1)
                                   \o " step " \o ToString(sx + 1)
                /\ \E k \in 1..(Len(w) - 1) :
                     /\ w[k] = "run_workflow-" \o ToString(i) \o "_" \o ToString(sx)
                     /\ \A j \in (k + 1)..Len(w) : w[j] = "failed"
                /\ Len(ctx[s].workflow_results) = i
                /\ Len(created[s]) = i + 1
                /\ rj[s].pc \in {"defer", "save", "returned"}

C24_Witness ==
    \E s \in Ids :
        /\ ctx[s].msg = "failed to run judge 2 step 1"
        /\ ctx[s].status = "failed"
        /\ Len(ctx[s].workflow_results) = 1
        /\ execLog[s][Len(execLog[s])].err
        /\ rj[s].pc = "returned"

\* C25: an incremental update for a submission that is not both completed
\* and successful leaves every user record that exists exactly as it is,
\* best_scores, best_submits, best_submit_date and total_score included, and
\* the only record it may add is the empty record of the submitting user.
C25_NoBestFromUnsuccessful ==
    [][(nextId' = nextId + 1 /\ ~Counts(submits'[nextId])) =>
         /\ \A u \in DOMAIN users : u \in DOMAIN users' /\ users'[u] = users[u]
         /\ \A u \in DOMAIN users' \ DOMAIN users :
              u = submits'[nextId].user /\ users'[u] = NewUser(u)]_vars

C25_Witness ==
    /\ "alice" \in DOMAIN users
    /\ "hello" \in DOMAIN users["alice"].best_scores
    /\ users["alice"].best_scores["hello"] = 2
    /\ users["alice"].best_submits["hello"] = 1
    /\ users["alice"].total_score = 2
    /\ 2 \in DOMAIN submits
    /\ submits[2].user = "alice" /\ submits[2].problem = "hello"
    /\ submits[2].status = "completed"
    /\ ~submits[2].judge_result.success
    /\ submits[2].judge_result.score = 2

\* C29: for a workflow without steps RunJudge creates one container and, by
\* the time it has given the completion signal, has cleaned it; it executes
\* no step of it, appends one workflow_results entry with success true and no
\* step results, and never fails the submission with a step failure.
C29_ZeroStepWorkflow ==
    \A s \in Ids :
        ctx[s].id # 0 =>
          LET wfs == problems[ctx[s].problem].workflow
              wr == ctx[s].workflow_results
          IN  \A i \in 1..Len(wfs) :
                wfs[i].steps = <<>> =>
                  /\ \A k \in 1..Len(execLog[s]) : execLog[s][k].wf # i - 1
                  /\ Count(created[s], i) <= 1
                  /\ i <= Len(wr) =>
                       /\ wr[i].success
                       /\ wr[i].steps = <<>>
                       /\ Count(created[s], i) = 1
                  /\ rj[s].pc \in {"save", "returned"} =>
                       Count(cleaned[s], i) = Count(created[s], i)
                  /\ (rj[s].idx = i - 1 /\ ctx[s].status = "failed") =>
                       ctx[s].msg \in {"failed to create submit workdir",
                                       "failed to run judge container",
                                       "failed to get judge logs"}

C29_Witness ==
    \E s \in Ids :
        /\ ctx[s].problem = "sum"
        /\ ctx[s].status = "completed"
        /\ ctx[s].workflow_results =
             <<[success |-> TRUE, logs |-> PlainLogs, exit_code |-> 0,
                steps |-> <<>>]>>
        /\ created[s] = <<1>> /\ cleaned[s] = <<1>>
        /\ execLog[s] = <<>>
        /\ rj[s].pc = "returned"

\* C30: while RunJudge is still judging, no container of the submission has
\* been cleaned, however many of its workflows have run; the containers are
\* cleaned when RunJudge leaves, the last created first, and all of them have
\* been cleaned when the completion signal is given.
C30_CleanedOnlyAtExit ==
    \A s \in Ids :
        /\ (Live(s) /\ rj[s].pc \notin {"defer", "save"}) => cleaned[s] = <<>>
        /\ Len(cleaned[s]) <= Len(created[s])
        /\ cleaned[s] = SubSeq(Reverse(created[s]), 1, Len(cleaned[s]))
        /\ running[s] >= 1 => cleaned[s] = Reverse(created[s])

C30_Witness ==
    \E s \in Ids :
        /\ rj[s].pc = "defer"
        /\ ctx[s].status = "completed"
        /\ created[s] = <<1, 2>>
        /\ cleaned[s] = <<2>>
        /\ running[s] = 0

\* the files of Uploaded that entry e of problem.Submits asks for
Asked(e) ==
    {i \in 1..Len(Uploaded) :
       IF e.is_dir THEN IsPrefix(e.path, Uploaded[i]) /\ Uploaded[i] # e.path
       ELSE Uploaded[i] = e.path}

\* C26: a copy that fails is the last copy RunJudge makes for the submission;
\* the submission is then failed with message "failed to copy submit file
\* <path>" for a file entry and "failed to copy submit directory <path>" for a
\* directory entry, <path> being the quoted declared path, and no container
\* is ever created for it; and a submission failed with "failed to create
\* submit workdir" has had no copy made and no container created.
C26_StagingFailure ==
    \A s \in Ids :
        ctx[s].id # 0 =>
          LET cp == rj[s].copies
              subs == problems[ctx[s].problem].submits
          IN  /\ \A i \in 1..Len(cp) : ~cp[i].ok => i = Len(cp)
              /\ (cp # <<>> /\ ~cp[Len(cp)].ok) =>
                   /\ ctx[s].status = "failed"
                   /\ ctx[s].msg = "failed to copy submit "
                                     \o (IF subs[rj[s].k].is_dir THEN "directory " ELSE "file ")
                                     \o "\"" \o Str(subs[rj[s].k].path) \o "\""
                   /\ created[s] = <<>>
                   /\ rj[s].pc \in {"defer", "save", "returned"}
              /\ ctx[s].msg = "failed to create submit workdir" =>
                   /\ ctx[s].status = "failed"
                   /\ cp = <<>> /\ ctx[s].submits_hashes = <<>>
                   /\ created[s] = <<>>

C26_Witness ==
    \E s \in Ids :
        /\ rj[s].pc = "returned"
        /\ ctx[s].msg = "failed to copy submit directory \"src\""
        /\ Len(rj[s].copies) = 3
        /\ rj[s].copies[2].ok /\ ~rj[s].copies[3].ok
        /\ created[s] = <<>>

\* C27: at every point of the pipeline submits_hashes lists, in the order of
\* the copies, the path of every copy that has succeeded and of no other; and
\* a completed submission has one entry for each file its problem's submits
\* resolve to.
C27_HashesAreStagedFiles ==
    \A s \in Ids :
        ctx[s].id # 0 =>
          LET done == SelectSeq(rj[s].copies, LAMBDA c : c.ok)
              subs == problems[ctx[s].problem].submits
          IN  /\ ctx[s].submits_hashes = [i \in 1..Len(done) |-> done[i].dst]
              /\ \A i \in 1..Len(done) : \A j \in 1..Len(done) :
                   done[i].dst = done[j].dst => i = j
              /\ ctx[s].status = "completed" =>
                   Len(ctx[s].submits_hashes) =
                     Cardinality(UNION {Asked(subs[k]) : k \in 1..Len(subs)})

C27_Witness ==
    \E s \in DOMAIN submits :
        /\ submits[s].status = "completed"
        /\ submits[s].submits_hashes =
             <<<<"main.py">>, <<"src", "a.c">>, <<"src", "lib", "b.c">>>>
        /\ Len(rj[s].copies) = 3

\* C28: for a directory entry D every copy reads <submit_dir>/D/R and writes
\* <submits_dir>/D/R for a regular file R found below <submit_dir>/D, with
\* cfg.SubmitsDir absolute or relative, and once the staging loop is past the
\* entry every such file has been copied.
C28_DirectoryStaging ==
    \A s \in Ids :
        ctx[s].id # 0 =>
          LET cp == rj[s].copies
              subs == problems[ctx[s].problem].submits
          IN  /\ \A i \in 1..Len(cp) :
                   \E f \in 1..Len(Uploaded) :
                     /\ cp[i].dst = Uploaded[f]
                     /\ cp[i].src = Join(rj[s].submit_dir, Uploaded[f])
              /\ \A k \in 1..Len(subs) :
                   (subs[k].is_dir /\ (rj[s].k > k \/ rj[s].pc \notin {"start", "mkdir", "stage", "defer", "save", "returned"})) =>
                     \A f \in Asked(subs[k]) :
                       \E i \in 1..Len(cp) : cp[i].ok /\ cp[i].dst = Uploaded[f]


\* C31: no two containers that exist at the same time have the same name:
\* the containers of one pipeline differ in the workflow index, and two
\* pipelines at work at the same time have different submission ids, so that
\* no name one of them gives to RunImage is a name the other gives.
C31_ContainerNamesDistinct ==
    \A s, t \in Ids :
        (Live(s) /\ Live(t)) =>
            \A i \in 1..Len(problems[ctx[s].problem].workflow),
               j \in 1..Len(problems[ctx[t].problem].workflow) :
                ContainerName(ctx[s].id, i - 1) = ContainerName(ctx[t].id, j - 1)
                    => (s = t /\ i = j)


\* C32: last_update is refreshed on every persisted mutation: a step that
\* inserts a submission row or changes a field of one leaves the row with the
\* clock value of that step as last_update, which is not older than the one
\* the row had.
C32_LastUpdateRefreshed ==
    [][\A id \in DOMAIN submits' :
          (id \notin DOMAIN submits \/ submits'[id] # submits[id]) =>
              /\ submits'[id].last_update = now
              /\ id \in DOMAIN submits =>
                     submits'[id].last_update >= submits[id].last_update]_vars


\* C33: a store write that fails neither stops RunJudge nor changes the
\* SubmitCtx in memory: the status in memory is the one last handed to
\* UpdateSubmit, it is completed or failed when RunJudge runs its deferred
\* calls, and when RunJudge has returned the channel is closed and every
\* container created is cleaned; a row left non-terminal by a pipeline that
\* is no longer at work stays as it is until the reaper sets it to dead.
C33_WriteFailureTolerated ==
    /\ [](\A s \in Ids :
            /\ (Live(s) /\ written[s] # <<>>) =>
                   ctx[s].status = written[s][Len(written[s])]
            /\ rj[s].pc \in {"defer", "save"} => ctx[s].status \in {"completed", "failed"}
            /\ rj[s].pc = "returned" =>
                   /\ running[s] = 1
                   /\ \A c \in Range(created[s]) : Count(cleaned[s], c) = 1)
    /\ [][\A id \in DOMAIN submits :
            (~Live(id) /\ submits[id].status \notin Terminal) =>
                /\ id \in DOMAIN submits'
                /\ \/ submits'[id] = submits[id]
                   \/ /\ phase = "boot"
                      /\ submits'[id] = [submits[id] EXCEPT !.status = "dead"]]_vars

\* RunJudge has returned with its containers cleaned and the channel closed,
\* after writes that failed: the row still says the workflow is running
C33_Witness ==
    \E s \in Ids :
        /\ rj[s].pc = "returned"
        /\ running[s] = 1
        /\ Len(created[s]) = 2 /\ Len(cleaned[s]) = 2
        /\ written[s][Len(written[s])] = "completed"
        /\ s \in DOMAIN submits
        /\ submits[s].status = "run_workflow-1_0"


\* C34: persisting a SubmitCtx and loading it back by id gives a record equal
\* to the persisted one in every persisted field: after every UpdateSubmit
\* call of the pipeline GetSubmitByID finds the submission, and what it
\* returns is the SubmitCtx in memory (the model keeps the persisted fields
\* only).
C34_PersistThenLoad ==
    [][\A s \in Ids :
          (Len(written'[s]) > Len(written[s]) /\ ctx'[s] # NoCtx) =>
              LET got == GetSubmitByID(submits', ctx'[s].id)
              IN  got.found /\ got.submit = ctx'[s]]_vars


\* C35: whenever a submission row is in the store, the users table has a row
\* for its submitter, and the rescan at the start of the process never ends
\* in its log.Fatal for a missing user.
C35_SubmitterExists ==
    /\ \A id \in DOMAIN submits : submits[id].user \in DOMAIN users
    /\ phase # "fatal"


\* C36: once the completion signal of a submission is given, no step of
\* RunJudge changes a field of the SubmitCtx, last_update included, while
\* handleSubmit is reading it.
C36_NoWriteAfterSignal ==
    [][\A s \in Ids :
          (/\ running[s] > 0
           /\ Live(s) /\ rj'[s].pc = "returned"
           /\ hs[s].pc \in {"wait", "create", "update"}) =>
              ctx'[s] = ctx[s]]_vars


\* C37: a result written by ModifySubmissionResult is never overwritten by
\* the pipeline: a row that carries the administrator's message keeps it,
\* with status completed and the success flag that goes with its score, in
\* every step that leaves the row in the store.
C37_AdminResultKept ==
    [][\A id \in DOMAIN submits :
          (submits[id].msg = "rescored" /\ id \in DOMAIN submits') =>
              /\ submits'[id].msg = "rescored"
              /\ submits'[id].status = "completed"
              /\ submits'[id].judge_result.success =
                     (submits'[id].judge_result.score > 0)]_vars


\* C38: a submission row deleted by DeleteSubmitByID or
\* DeleteSubmitByIDWithProblems never comes back: a submission whose
\* pipeline has written to the store and whose row is gone stays without a
\* row in every step.
C38_DeletedStaysDeleted ==
    [][\A s \in Ids :
          (written[s] # <<>> /\ s \notin DOMAIN submits) =>
              s \notin DOMAIN submits']_vars


\* C39: after an administrator's pause command no new submission is
\* accepted: while the pause flag is set no step accepts a submission (no
\* SubmitCtx is created and no RunJudge started), and no submit or sub
\* command with a problem id is answered otherwise than with the paused
\* error.
C39_PausedAcceptsNothing ==
    [][paused => /\ nextId' = nextId
                 /\ \A s \in Ids : rj[s].pc = "none" => rj'[s].pc # "start"]_vars


\* the pairs of a user and a submission id that the answer r tells its
\* reader: the user field of the submissions in it, and the best_submits of
\* the user records in it
Learned(r) ==
    IF r.status # 200 THEN {}
    ELSE IF r.route \in {"list", "status"}
         THEN {<<r.data[i].user, r.data[i].id>> : i \in 1..Len(r.data)}
         ELSE UNION {{<<r.data[i].id, r.data[i].best_submits[pid]>> :
                        pid \in DOMAIN r.data[i].best_submits} :
                     i \in 1..Len(r.data)}

\* C40: through the HTTP read API a non-admin user never learns another
\* user's submission: no answer to a non-admin names a user other than the
\* reader together with the id of a submission of that user.
C40_NoForeignSubmission ==
    (resp.route \in Routes /\ resp.to # "" /\ ~IsAdmin(resp.to)) =>
        \A p \in Learned(resp) :
            ~(/\ p[1] # resp.to
              /\ p[2] \in DOMAIN submits
              /\ submits[p[2]].user = p[1])

====
